--------------------------- MODULE JobQueue_proof ---------------------------
(* Proofs about JobQueue, for every number of workers, ids, queues and     *)
(* enqueue calls: the types, that no job is run twice, that no stale check *)
(* takes the job of a live horse, and, when ids are not used again, that   *)
(* outcomes stay with their job and the queue implements JobPromise.       *)
EXTENDS JobQueue, FiniteSetTheorems, WellFoundedInduction, TLAPS

-----------------------------------------------------------------------------
(* The inductive invariant *)

\* Rows carry different tickets, and their ids count as used.
RowsOK ==
  /\ \A i \in JobIds : Has(i) => i \in used /\ job[i].ticket \in 1 .. tickets
  /\ \A i, j \in JobIds :
       Has(i) /\ Has(j) /\ i # j => job[i].ticket # job[j].ticket

\* A row that waits was never claimed.
ClaimedOK ==
  /\ claimed \subseteq 1 .. tickets
  /\ \A i \in JobIds : IsQueued(i) => job[i].ticket \notin claimed

\* Only a worker that watches its horse, or died doing so, has one.
HorseOK == \A w \in Workers : pc[w] \in {"wait", "dead"} \/ horse[w] = "none"

\* A dequeue has locked the queued row it will hand out, and no other has.
LocksOK ==
  /\ \A w \in Workers :
       pc[w] = "claiming" => /\ IsQueued(run[w].id)
                             /\ job[run[w].id].ticket = run[w].ticket
  /\ \A w, v \in Workers :
       pc[w] = "claiming" /\ pc[v] = "claiming" /\ w # v
         => run[w].id # run[v].id

\* A job in hand has been claimed, and is in one hand only.
HandsOK ==
  /\ \A w \in Workers :
       Holds(w) => run[w].ticket \in claimed /\ run[w].id \in used
  /\ \A w, v \in Workers :
       Holds(w) /\ Holds(v) /\ w # v => run[w].ticket # run[v].ticket

Inv == TypeOK /\ RowsOK /\ ClaimedOK /\ HorseOK /\ LocksOK /\ HandsOK

-----------------------------------------------------------------------------
(* Types *)

\* The rows and runs of the initial state are well formed.
LEMMA EmptyTypes == AbsentRow \in Row /\ NoRun \in Run
BY BoundsAssumption DEF AbsentRow, NoRun, Row, Run

\* Recording a failure keeps the table well formed.
LEMMA MarkFailedType ==
  ASSUME TypeOK, NEW i \in JobIds,
         NEW why \in {"died", "timeout", "traceback"}, MarkFailed(i, why)
  PROVE  job' \in [JobIds -> Row]
<1>1. [job[i] EXCEPT !.status = "failed", !.error = why] \in Row
  BY DEF TypeOK, Row
<1>2. [job EXCEPT ![i].status = "failed", ![i].error = why]
        = [job EXCEPT ![i] = [job[i] EXCEPT !.status = "failed",
                                            !.error = why]]
  BY DEF TypeOK, Row
<1> QED BY <1>1, <1>2 DEF MarkFailed, TypeOK

\* Every step keeps the types of the variables.
LEMMA TypeStep == TypeOK /\ [Next]_vars => TypeOK'
<1> SUFFICES ASSUME TypeOK, [Next]_vars PROVE TypeOK'
  OBVIOUS
<1> USE BoundsAssumption, EmptyTypes
<1>1. ASSUME NEW i \in JobIds, NEW q \in Queues, NEW t \in Timeouts,
             NEW d \in Delays, Enqueue(i, q, t, d)
      PROVE  TypeOK'
  <2>1. NewRow(q, t, d) \in Row
    BY DEF TypeOK, NewRow, Row
  <2> QED BY <1>1, <2>1 DEF TypeOK, Enqueue
<1>2. ASSUME NEW i \in JobIds, EnqueueFetch(i) PROVE TypeOK'
  BY <1>2 DEF TypeOK, EnqueueFetch
<1>3. ASSUME NEW i \in JobIds, Cancel(i) PROVE TypeOK'
  BY <1>3 DEF TypeOK, Cancel, DeleteRow
<1>4. ASSUME NEW q \in Queues, Clear(q) PROVE TypeOK'
  BY <1>4 DEF TypeOK, Clear
<1>5. ASSUME NEW w \in Workers, Start(w) PROVE TypeOK'
  BY <1>5 DEF TypeOK, Start, GoTo, WorkerPc
<1>6. ASSUME NEW w \in Workers, Claim(w) PROVE TypeOK'
  <2>1. PICK i \in Candidates(w) :
          run' = [run EXCEPT ![w] =
                    [id |-> i, ticket |-> job[i].ticket,
                     timeout |-> job[i].timeout, since |-> now,
                     why |-> "died"]]
    BY <1>6 DEF Claim
  <2>2. i \in JobIds /\ job[i] \in Row
    BY DEF Candidates, TypeOK
  <2>3. [id |-> i, ticket |-> job[i].ticket, timeout |-> job[i].timeout,
         since |-> now, why |-> "died"] \in Run
    BY <2>2 DEF Row, Run, TypeOK
  <2> QED BY <1>6, <2>1, <2>3 DEF TypeOK, Claim, GoTo, WorkerPc
<1>7. ASSUME NEW w \in Workers, CommitClaim(w) PROVE TypeOK'
  <2>1. run[w] \in Run /\ job[run[w].id] \in Row
    BY DEF TypeOK, Run
  <2>2. job' \in [JobIds -> Row]
    BY <1>7, <2>1 DEF TypeOK, CommitClaim, Run, Row
  <2> QED BY <1>7, <2>1, <2>2 DEF TypeOK, CommitClaim, GoTo, WorkerPc, Run
<1>8. ASSUME NEW w \in Workers, Fork(w) PROVE TypeOK'
  BY <1>8 DEF TypeOK, Fork, GoTo, WorkerPc, Run, HorsePc, LiveHorse
<1>9. ASSUME NEW w \in Workers, Kill(w) PROVE TypeOK'
  BY <1>9 DEF TypeOK, Kill, GoTo, WorkerPc, Run, HorsePc, LiveHorse
<1>10. ASSUME NEW w \in Workers, Reap(w) PROVE TypeOK'
  BY <1>10 DEF TypeOK, Reap, GoTo, WorkerPc, Run, HorsePc, LiveHorse
<1>11. ASSUME NEW w \in Workers, ParentFail(w) PROVE TypeOK'
  <2>1. run[w] \in Run
    BY DEF TypeOK
  <2>2. job' \in [JobIds -> Row]
    BY <1>11, <2>1, MarkFailedType DEF ParentFail, Run
  <2> QED BY <1>11, <2>2 DEF TypeOK, ParentFail, GoTo, WorkerPc
<1>12. ASSUME NEW w \in Workers, PollEmpty(w) \/ Stop(w) \/ Sleep(w)
       PROVE  TypeOK'
  BY <1>12 DEF TypeOK, PollEmpty, Stop, Sleep, GoTo, WorkerPc
<1>13. ASSUME NEW w \in Workers, FailStale(w) PROVE TypeOK'
  BY <1>13 DEF TypeOK, FailStale, GoTo, WorkerPc, Row
<1>14. ASSUME NEW w \in Workers, WorkerDies(w) PROVE TypeOK'
  BY <1>14 DEF TypeOK, WorkerDies, Forget, WorkerPc, HorsePc
<1>15. ASSUME NEW w \in Workers, Return(w) \/ Raise(w) PROVE TypeOK'
  BY <1>15 DEF TypeOK, Return, Raise, HorseGoes, HorsePc, LiveHorse
<1>16. ASSUME NEW w \in Workers, Finish(w) PROVE TypeOK'
  BY <1>16 DEF TypeOK, Finish, DeleteRow, HorseGoes, HorsePc, LiveHorse, Run
<1>17. ASSUME NEW w \in Workers, HorseFail(w) PROVE TypeOK'
  <2>1. job' \in [JobIds -> Row]
    BY <1>17, MarkFailedType DEF HorseFail, TypeOK, Run
  <2> QED
    BY <1>17, <2>1 DEF TypeOK, HorseFail, HorseGoes, HorsePc, LiveHorse
<1>18. ASSUME NEW w \in Workers, HorseExit(w) \/ HorseDies(w) PROVE TypeOK'
  BY <1>18 DEF TypeOK, HorseExit, HorseDies, Exit, Forget, HorsePc
<1>19. CASE Tick
  BY <1>19 DEF TypeOK, Tick
<1>20. CASE UNCHANGED vars
  BY <1>20 DEF TypeOK, vars
<1> QED
  BY <1>1, <1>2, <1>3, <1>4, <1>5, <1>6, <1>7, <1>8, <1>9, <1>10, <1>11,
     <1>12, <1>13, <1>14, <1>15, <1>16, <1>17, <1>18, <1>19, <1>20
     DEF Next, CallerNext, WorkerStep, HorseStep
-----------------------------------------------------------------------------
(* Most steps only take away: rows disappear or stop waiting, locks are    *)
(* released, jobs are put down.                                            *)

TableShrinks ==
  \A i \in JobIds :
    Has(i)' => /\ Has(i)
               /\ job'[i].ticket = job[i].ticket
               /\ IsQueued(i)' => IsQueued(i)

LocksKept ==
  \A w \in Workers :
    pc'[w] = "claiming" =>
      /\ pc[w] = "claiming" /\ run'[w] = run[w]
      /\ job'[run[w].id] = job[run[w].id]

HandsShrink ==
  \A w \in Workers :
    Holds(w)' => /\ Holds(w)
                 /\ run'[w].ticket = run[w].ticket /\ run'[w].id = run[w].id

Shrinks ==
  /\ TableShrinks /\ LocksKept /\ HandsShrink /\ HorseOK'
  /\ UNCHANGED <<tickets, claimed, used>>

\* A step that only takes away keeps the invariant.
LEMMA ShrinkKeeps == Inv /\ TypeOK' /\ Shrinks => Inv'
<1> SUFFICES ASSUME Inv, TypeOK', Shrinks PROVE Inv'
  OBVIOUS
<1>1. RowsOK'
  BY DEF Inv, RowsOK, Shrinks, TableShrinks
<1>2. ClaimedOK'
  BY DEF Inv, ClaimedOK, Shrinks, TableShrinks, IsQueued, Has
<1>3. LocksOK'
  BY DEF Inv, LocksOK, Shrinks, LocksKept, IsQueued
<1>4. HandsOK'
  BY DEF Inv, HandsOK, Shrinks, HandsShrink
<1> QED BY <1>1, <1>2, <1>3, <1>4 DEF Inv, Shrinks

\* A step that leaves the table alone.
LEMMA TableSame ==
  ASSUME UNCHANGED job
  PROVE  TableShrinks
BY DEF TableShrinks, Has, IsQueued

\* The fetch of an enqueue changes no row.
LEMMA EnqueueFetchShrinks ==
  ASSUME Inv, NEW i \in JobIds, EnqueueFetch(i)
  PROVE  Shrinks
<1>1. TableShrinks
  BY TableSame DEF EnqueueFetch
<1>2. LocksKept
  BY DEF Inv, TypeOK, LocksKept, HorseOK, LiveHorse, EnqueueFetch
<1>3. HandsShrink
  BY DEF Inv, TypeOK, Run, HandsShrink, HorseOK, Holds, LiveHorse, EnqueueFetch
<1>4. HorseOK'
  BY DEF Inv, TypeOK, HorseOK, LiveHorse, EnqueueFetch
<1> QED BY <1>1, <1>2, <1>3, <1>4 DEF Shrinks, EnqueueFetch

\* job_cancel takes a row away.
LEMMA CancelShrinks ==
  ASSUME Inv, NEW i \in JobIds, Cancel(i)
  PROVE  Shrinks
<1>1. TableShrinks
  BY DEF Inv, TypeOK, Row, Run, TableShrinks, Has, IsQueued, Cancel,
       DeleteRow, AbsentRow
<1>2. LocksKept
  BY DEF Inv, TypeOK, Row, Run, LocksKept, LocksOK, HorseOK, Locked,
       IsQueued, LiveHorse, Cancel, DeleteRow, AbsentRow
<1>3. HandsShrink
  BY DEF Inv, TypeOK, Run, HandsShrink, HorseOK, Holds, LiveHorse, Cancel
<1>4. HorseOK'
  BY DEF Inv, TypeOK, HorseOK, LiveHorse, Cancel
<1> QED BY <1>1, <1>2, <1>3, <1>4 DEF Shrinks, Cancel

\* job_clear takes waiting rows away.
LEMMA ClearShrinks ==
  ASSUME Inv, NEW q \in Queues, Clear(q)
  PROVE  Shrinks
<1>1. TableShrinks
  BY DEF Inv, TypeOK, Row, Run, TableShrinks, Has, IsQueued, Clear,
       Clearable, AbsentRow
<1>2. LocksKept
  BY DEF Inv, TypeOK, Row, Run, LocksKept, LocksOK, HorseOK, Locked,
       IsQueued, LiveHorse, Clear, Clearable, AbsentRow
<1>3. HandsShrink
  BY DEF Inv, TypeOK, Run, HandsShrink, HorseOK, Holds, LiveHorse, Clear
<1>4. HorseOK'
  BY DEF Inv, TypeOK, HorseOK, LiveHorse, Clear
<1> QED BY <1>1, <1>2, <1>3, <1>4 DEF Shrinks, Clear

\* A worker that starts has nothing in hand.
LEMMA StartShrinks ==
  ASSUME Inv, NEW w \in Workers, Start(w)
  PROVE  Shrinks
<1>1. TableShrinks
  BY TableSame DEF Start, GoTo
<1>2. LocksKept
  BY DEF Inv, TypeOK, LocksKept, HorseOK, LiveHorse, Start, GoTo
<1>3. HandsShrink
  BY DEF Inv, TypeOK, Run, HandsShrink, HorseOK, Holds, LiveHorse, Start, GoTo
<1>4. HorseOK'
  BY DEF Inv, TypeOK, HorseOK, LiveHorse, Start, GoTo
<1> QED BY <1>1, <1>2, <1>3, <1>4 DEF Shrinks, Start, GoTo

\* The fork keeps the job its worker claimed.
LEMMA ForkShrinks ==
  ASSUME Inv, NEW w \in Workers, Fork(w)
  PROVE  Shrinks
<1>1. TableShrinks
  BY TableSame DEF Fork, GoTo
<1>2. LocksKept
  BY DEF Inv, TypeOK, LocksKept, HorseOK, LiveHorse, Fork, GoTo
<1>3. HandsShrink
  BY DEF Inv, TypeOK, Run, HandsShrink, HorseOK, Holds, LiveHorse, Fork, GoTo
<1>4. HorseOK'
  BY DEF Inv, TypeOK, HorseOK, LiveHorse, Fork, GoTo
<1> QED BY <1>1, <1>2, <1>3, <1>4 DEF Shrinks, Fork, GoTo

\* The hard kill keeps the job whose failure is still to be recorded.
LEMMA KillShrinks ==
  ASSUME Inv, NEW w \in Workers, Kill(w)
  PROVE  Shrinks
<1>1. TableShrinks
  BY TableSame DEF Kill, GoTo
<1>2. LocksKept
  BY DEF Inv, TypeOK, LocksKept, HorseOK, LiveHorse, Kill, GoTo
<1>3. HandsShrink
  BY DEF Inv, TypeOK, Run, HandsShrink, HorseOK, Holds, LiveHorse, Kill, GoTo
<1>4. HorseOK'
  BY DEF Inv, TypeOK, HorseOK, LiveHorse, Kill, GoTo
<1> QED BY <1>1, <1>2, <1>3, <1>4 DEF Shrinks, Kill, GoTo

\* A worker that reaps its horse keeps its job or puts it down.
LEMMA ReapShrinks ==
  ASSUME Inv, NEW w \in Workers, Reap(w)
  PROVE  Shrinks
<1>1. TableShrinks
  BY TableSame DEF Reap, GoTo
<1>2. LocksKept
  BY DEF Inv, TypeOK, LocksKept, HorseOK, LiveHorse, Reap, GoTo
<1>3. HandsShrink
  BY DEF Inv, TypeOK, Run, HandsShrink, HorseOK, Holds, LiveHorse, Reap, GoTo
<1>4. HorseOK'
  BY DEF Inv, TypeOK, HorseOK, LiveHorse, Reap, GoTo
<1> QED BY <1>1, <1>2, <1>3, <1>4 DEF Shrinks, Reap, GoTo

\* The failure a worker records leaves no waiting row behind.
LEMMA ParentFailShrinks ==
  ASSUME Inv, NEW w \in Workers, ParentFail(w)
  PROVE  Shrinks
<1>1. TableShrinks
  BY DEF Inv, TypeOK, Row, Run, TableShrinks, Has, IsQueued, ParentFail,
       GoTo, MarkFailed
<1>2. LocksKept
  BY DEF Inv, TypeOK, Row, Run, LocksKept, LocksOK, HorseOK, Locked,
       IsQueued, LiveHorse, ParentFail, GoTo, MarkFailed
<1>3. HandsShrink
  BY DEF Inv, TypeOK, Run, HandsShrink, HorseOK, Holds, LiveHorse,
       ParentFail, GoTo
<1>4. HorseOK'
  BY DEF Inv, TypeOK, HorseOK, LiveHorse, ParentFail, GoTo
<1> QED BY <1>1, <1>2, <1>3, <1>4 DEF Shrinks, ParentFail, GoTo

\* An empty poll, a sleep and a stop change no row and no job in hand.
LEMMA PollShrinks ==
  ASSUME Inv, NEW w \in Workers, PollEmpty(w) \/ Stop(w) \/ Sleep(w)
  PROVE  Shrinks
<1>1. TableShrinks
  BY TableSame DEF PollEmpty, Stop, Sleep, GoTo
<1>2. LocksKept
  BY DEF Inv, TypeOK, LocksKept, HorseOK, LiveHorse, PollEmpty, Stop, Sleep,
       GoTo
<1>3. HandsShrink
  BY DEF Inv, TypeOK, Run, HandsShrink, HorseOK, Holds, LiveHorse, PollEmpty,
       Stop, Sleep, GoTo
<1>4. HorseOK'
  BY DEF Inv, TypeOK, HorseOK, LiveHorse, PollEmpty, Stop, Sleep, GoTo
<1> QED BY <1>1, <1>2, <1>3, <1>4 DEF Shrinks, PollEmpty, Stop, Sleep, GoTo

\* fail_stale turns started rows into failed ones.
LEMMA FailStaleShrinks ==
  ASSUME Inv, NEW w \in Workers, FailStale(w)
  PROVE  Shrinks
<1>1. TableShrinks
  BY DEF Inv, TypeOK, Row, Run, TableShrinks, Has, IsQueued, FailStale, GoTo,
       IsStale
<1>2. LocksKept
  BY DEF Inv, TypeOK, Row, Run, LocksKept, LocksOK, HorseOK, Locked,
       IsQueued, LiveHorse, FailStale, GoTo, IsStale
<1>3. HandsShrink
  BY DEF Inv, TypeOK, Run, HandsShrink, HorseOK, Holds, LiveHorse, FailStale,
       GoTo
<1>4. HorseOK'
  BY DEF Inv, TypeOK, HorseOK, LiveHorse, FailStale, GoTo
<1> QED BY <1>1, <1>2, <1>3, <1>4 DEF Shrinks, FailStale, GoTo

\* A dead worker gives up its lock; its horse keeps the job.
LEMMA WorkerDiesShrinks ==
  ASSUME Inv, NEW w \in Workers, WorkerDies(w)
  PROVE  Shrinks
<1>1. TableShrinks
  BY TableSame DEF WorkerDies, Forget
<1>2. LocksKept
  BY DEF Inv, TypeOK, LocksKept, HorseOK, LiveHorse, WorkerDies, Forget
<1>3. HandsShrink
  BY DEF Inv, TypeOK, Run, HandsShrink, HorseOK, Holds, LiveHorse,
       WorkerDies, Forget
<1>4. HorseOK'
  BY DEF Inv, TypeOK, HorseOK, LiveHorse, WorkerDies, Forget
<1> QED BY <1>1, <1>2, <1>3, <1>4 DEF Shrinks, WorkerDies, Forget

\* The end of the job function changes no row.
LEMMA ReturnShrinks ==
  ASSUME Inv, NEW w \in Workers, Return(w) \/ Raise(w)
  PROVE  Shrinks
<1>1. TableShrinks
  BY TableSame DEF Return, Raise, HorseGoes
<1>2. LocksKept
  BY DEF Inv, TypeOK, LocksKept, HorseOK, LiveHorse, Return, Raise, HorseGoes
<1>3. HandsShrink
  BY DEF Inv, TypeOK, Run, HandsShrink, HorseOK, Holds, LiveHorse, Return,
       Raise, HorseGoes
<1>4. HorseOK'
  BY DEF Inv, TypeOK, HorseOK, LiveHorse, Return, Raise, HorseGoes
<1> QED BY <1>1, <1>2, <1>3, <1>4 DEF Shrinks, Return, Raise, HorseGoes

\* finish takes the row of its id away.
LEMMA FinishShrinks ==
  ASSUME Inv, NEW w \in Workers, Finish(w)
  PROVE  Shrinks
<1>1. TableShrinks
  BY DEF Inv, TypeOK, Row, Run, TableShrinks, Has, IsQueued, Finish,
       HorseGoes, DeleteRow, AbsentRow
<1>2. LocksKept
  BY DEF Inv, TypeOK, Row, Run, LocksKept, LocksOK, HorseOK, Locked,
       IsQueued, LiveHorse, Finish, HorseGoes, DeleteRow, AbsentRow
<1>3. HandsShrink
  BY DEF Inv, TypeOK, Run, HandsShrink, HorseOK, Holds, LiveHorse, Finish,
       HorseGoes
<1>4. HorseOK'
  BY DEF Inv, TypeOK, HorseOK, LiveHorse, Finish, HorseGoes
<1> QED BY <1>1, <1>2, <1>3, <1>4 DEF Shrinks, Finish, HorseGoes

\* The failure a horse records leaves no waiting row behind.
LEMMA HorseFailShrinks ==
  ASSUME Inv, NEW w \in Workers, HorseFail(w)
  PROVE  Shrinks
<1>1. TableShrinks
  BY DEF Inv, TypeOK, Row, Run, TableShrinks, Has, IsQueued, HorseFail,
       HorseGoes, MarkFailed
<1>2. LocksKept
  BY DEF Inv, TypeOK, Row, Run, LocksKept, LocksOK, HorseOK, Locked,
       IsQueued, LiveHorse, HorseFail, HorseGoes, MarkFailed
<1>3. HandsShrink
  BY DEF Inv, TypeOK, Run, HandsShrink, HorseOK, Holds, LiveHorse, HorseFail,
       HorseGoes
<1>4. HorseOK'
  BY DEF Inv, TypeOK, HorseOK, LiveHorse, HorseFail, HorseGoes
<1> QED BY <1>1, <1>2, <1>3, <1>4 DEF Shrinks, HorseFail, HorseGoes

\* A horse that exits or dies changes no row.
LEMMA HorseExitShrinks ==
  ASSUME Inv, NEW w \in Workers, HorseExit(w) \/ HorseDies(w)
  PROVE  Shrinks
<1>1. TableShrinks
  BY TableSame DEF HorseExit, HorseDies, Exit, Forget
<1>2. LocksKept
  BY DEF Inv, TypeOK, LocksKept, HorseOK, LiveHorse, HorseExit, HorseDies,
       Exit, Forget
<1>3. HandsShrink
  BY DEF Inv, TypeOK, Run, HandsShrink, HorseOK, Holds, LiveHorse, HorseExit,
       HorseDies, Exit, Forget
<1>4. HorseOK'
  BY DEF Inv, TypeOK, HorseOK, LiveHorse, HorseExit, HorseDies, Exit, Forget
<1> QED BY <1>1, <1>2, <1>3, <1>4 DEF Shrinks, HorseExit, HorseDies, Exit,
     Forget

-----------------------------------------------------------------------------
(* The three steps that add something *)

\* A new row gets a ticket nobody has, under an id that is not locked.
LEMMA EnqueueKeeps ==
  ASSUME Inv, TypeOK', NEW i \in JobIds, NEW q \in Queues,
         NEW t \in Timeouts, NEW d \in Delays, Enqueue(i, q, t, d)
  PROVE  Inv'
<1> USE DEF Enqueue
<1>1. /\ job'[i].ticket = tickets + 1 /\ job'[i].status = "queued"
      /\ \A j \in JobIds \ {i} : job'[j] = job[j]
  BY DEF Inv, TypeOK, NewRow
<1>2. tickets \in Nat /\ tickets' = tickets + 1
  BY DEF Inv, TypeOK
<1>3. RowsOK'
  BY <1>1, <1>2 DEF Inv, RowsOK, Has
<1>4. ClaimedOK'
  BY <1>1, <1>2 DEF Inv, ClaimedOK, IsQueued
<1>5. LocksOK'
  BY <1>1 DEF Inv, LocksOK, Locked, IsQueued
<1>6. HorseOK' /\ HandsOK'
  BY DEF Inv, HorseOK, HandsOK, Holds
<1> QED BY <1>3, <1>4, <1>5, <1>6 DEF Inv

\* A dequeue locks a row that waits and that nobody has locked.
LEMMA ClaimKeeps ==
  ASSUME Inv, TypeOK', NEW w \in Workers, Claim(w)
  PROVE  Inv'
<1> USE DEF Claim, GoTo
<1>1. PICK i \in Candidates(w) :
        run' = [run EXCEPT ![w] =
                  [id |-> i, ticket |-> job[i].ticket,
                   timeout |-> job[i].timeout, since |-> now,
                   why |-> "died"]]
  OBVIOUS
<1>2. i \in JobIds /\ IsQueued(i) /\ ~Locked(i)
  BY DEF Candidates, IsDue
<1>3. /\ run'[w].id = i /\ run'[w].ticket = job[i].ticket
      /\ \A v \in Workers \ {w} : run'[v] = run[v] /\ pc'[v] = pc[v]
      /\ pc[w] = "idle" /\ pc'[w] = "claiming"
  BY <1>1 DEF Inv, TypeOK
<1>4. RowsOK' /\ ClaimedOK'
  BY DEF Inv, RowsOK, ClaimedOK, Has, IsQueued
<1>5. HorseOK'
  BY <1>3 DEF Inv, HorseOK
<1>6. LocksOK'
  BY <1>2, <1>3 DEF Inv, LocksOK, Locked, IsQueued
<1>7. \A v \in Workers : Holds(v)' => v # w /\ Holds(v)
  BY <1>3 DEF Inv, HorseOK, Holds, LiveHorse
<1>8. HandsOK'
  BY <1>3, <1>7 DEF Inv, HandsOK
<1> QED BY <1>4, <1>5, <1>6, <1>8 DEF Inv

\* The commit of a dequeue takes the row and its ticket in hand.
LEMMA CommitClaimKeeps ==
  ASSUME Inv, TypeOK', NEW w \in Workers, CommitClaim(w)
  PROVE  Inv'
<1> DEFINE k == run[w].id
<1>1. /\ k \in JobIds /\ IsQueued(k) /\ job[k].ticket = run[w].ticket
      /\ pc[w] = "claiming" /\ pc'[w] = "launch"
      /\ \A v \in Workers \ {w} : pc'[v] = pc[v]
  BY DEF CommitClaim, GoTo, Inv, TypeOK, LocksOK, Run
<1>2. /\ job'[k].status = "started" /\ job'[k].ticket = job[k].ticket
      /\ \A j \in JobIds \ {k} : job'[j] = job[j]
  BY <1>1 DEF CommitClaim, Inv, TypeOK, Row
<1>3. /\ claimed' = claimed \cup {run[w].ticket}
      /\ UNCHANGED <<tickets, used, run, horse>>
  BY DEF CommitClaim
<1> HIDE DEF k
<1>4. RowsOK'
  BY <1>1, <1>2, <1>3 DEF Inv, RowsOK, Has, IsQueued
<1>5. job[k].ticket \in 1 .. tickets /\ k \in used
  BY <1>1 DEF Inv, RowsOK, Has, IsQueued
<1>6. ClaimedOK'
  <2>1. claimed' \subseteq 1 .. tickets'
    BY <1>1, <1>3, <1>5 DEF Inv, ClaimedOK
  <2>2. ASSUME NEW j \in JobIds,
       IsQueued(j)' PROVE job'[j].ticket \notin claimed'
    <3>1. j # k /\ IsQueued(j) /\ job'[j] = job[j]
      BY <1>2, <2>2 DEF IsQueued
    <3>2. job[j].ticket # job[k].ticket
      BY <1>1, <3>1 DEF Inv, RowsOK, Has, IsQueued
    <3> QED BY <1>1, <1>3, <3>1, <3>2 DEF Inv, ClaimedOK
  <2> QED BY <2>1, <2>2 DEF ClaimedOK
<1>7. HorseOK'
  BY <1>1, <1>3 DEF Inv, HorseOK
<1>8. \A v \in Workers \ {w} : pc[v] = "claiming" => run[v].id # k
  BY <1>1 DEF Inv, LocksOK, k
<1>9. LocksOK'
  <2>1. ASSUME NEW v \in Workers, pc'[v] = "claiming"
        PROVE  /\ v # w /\ pc[v] = "claiming" /\ run'[v] = run[v]
               /\ job'[run[v].id] = job[run[v].id]
    BY <1>1, <1>2, <1>3, <1>8, <2>1 DEF Inv, TypeOK, Run
  <2> QED BY <2>1 DEF Inv, LocksOK, IsQueued
<1>10. run[w].ticket \notin claimed
  BY <1>1 DEF Inv, ClaimedOK
<1>11. \A v \in Workers : Holds(v)' => v = w \/ Holds(v)
  BY <1>1, <1>3 DEF Holds
<1>12. HandsOK'
  BY <1>3, <1>5, <1>10, <1>11 DEF Inv, HandsOK, k
<1> QED BY <1>4, <1>6, <1>7, <1>9, <1>12 DEF Inv

-----------------------------------------------------------------------------
(* The invariant holds of every behaviour *)

\* The empty table and idle workers satisfy the invariant.
LEMMA InvInit == Init => Inv
<1> SUFFICES ASSUME Init PROVE Inv
  OBVIOUS
<1>1. TypeOK
  BY EmptyTypes DEF Init, TypeOK, WorkerPc, HorsePc
<1>2. \A i \in JobIds : ~Has(i) /\ ~IsQueued(i)
  BY DEF Init, Has, IsQueued, AbsentRow
<1>3. \A w \in Workers : pc[w] = "off" /\ horse[w] = "none" /\ ~Holds(w)
  BY DEF Init, Holds, LiveHorse
<1>4. claimed = {}
  BY DEF Init
<1> QED
  BY <1>1, <1>2, <1>3, <1>4
     DEF Inv, RowsOK, ClaimedOK, HorseOK, LocksOK, HandsOK

\* Every step keeps the invariant: one case per action of Next.
LEMMA InvStep == Inv /\ [Next]_vars => Inv'
<1> SUFFICES ASSUME Inv, [Next]_vars PROVE Inv'
  OBVIOUS
<1>1. TypeOK'
  BY TypeStep DEF Inv
<1>2. ASSUME NEW i \in JobIds, NEW q \in Queues, NEW t \in Timeouts,
             NEW d \in Delays, Enqueue(i, q, t, d)
      PROVE  Inv'
  BY <1>1, <1>2, EnqueueKeeps
<1>3. ASSUME NEW i \in JobIds, EnqueueFetch(i) \/ Cancel(i) PROVE Inv'
  BY <1>1, <1>3, EnqueueFetchShrinks, CancelShrinks, ShrinkKeeps
<1>4. ASSUME NEW q \in Queues, Clear(q) PROVE Inv'
  BY <1>1, <1>4, ClearShrinks, ShrinkKeeps
<1>5. ASSUME NEW w \in Workers, Claim(w) PROVE Inv'
  BY <1>1, <1>5, ClaimKeeps
<1>6. ASSUME NEW w \in Workers, CommitClaim(w) PROVE Inv'
  BY <1>1, <1>6, CommitClaimKeeps
<1>7. ASSUME NEW w \in Workers,
             \/ Start(w) \/ Fork(w) \/ Kill(w) \/ Reap(w) \/ ParentFail(w)
             \/ PollEmpty(w) \/ Stop(w) \/ Sleep(w) \/ FailStale(w)
             \/ WorkerDies(w)
      PROVE  Inv'
  <2>1. Shrinks
    BY <1>7, StartShrinks, ForkShrinks, KillShrinks, ReapShrinks,
       ParentFailShrinks, PollShrinks, FailStaleShrinks, WorkerDiesShrinks
  <2> QED BY <1>1, <2>1, ShrinkKeeps
<1>8. ASSUME NEW w \in Workers,
             \/ Return(w) \/ Raise(w) \/ Finish(w) \/ HorseFail(w)
             \/ HorseExit(w) \/ HorseDies(w)
      PROVE  Inv'
  <2>1. Shrinks
    BY <1>8, ReturnShrinks, FinishShrinks, HorseFailShrinks,
       HorseExitShrinks
  <2> QED BY <1>1, <2>1, ShrinkKeeps
<1>9. CASE Tick \/ UNCHANGED vars
  <2>1. UNCHANGED <<job, tickets, used, claimed, pc, run, horse>>
    BY <1>9 DEF Tick, vars
  <2>2. LocksKept /\ HandsShrink /\ HorseOK'
    BY <2>1 DEF LocksKept, HandsShrink, Holds, Inv, HorseOK
  <2> QED BY <1>1, <2>1, <2>2, TableSame, ShrinkKeeps DEF Shrinks
<1> QED
  BY <1>2, <1>3, <1>4, <1>5, <1>6, <1>7, <1>8, <1>9
     DEF Next, CallerNext, WorkerStep, HorseStep

\* The inductive invariant holds in every state of the job queue: rows, locks
\* and jobs in hand agree, and every claimed ticket is recorded as claimed.
THEOREM InvHolds == Spec => []Inv
BY InvInit, InvStep, PTL DEF Spec

\* The variables keep their types in every behaviour of the job queue.
THEOREM TypeCorrect == Spec => []TypeOK
BY InvHolds, PTL DEF Inv

\* No job is run twice (dequeue with SKIP LOCKED; failed jobs stay failed).
THEOREM AtMostOnce == Spec => []RunAtMostOnce
<1>1. Inv => RunAtMostOnce
  <2> SUFFICES ASSUME Inv PROVE RunAtMostOnce
    OBVIOUS
  <2>1. ASSUME NEW w \in Workers, NEW v \in Workers, Busy(w), Busy(v), w # v
        PROVE  run[w].ticket # run[v].ticket
    <3>1. run[w].id \in JobIds /\ run[v].id \in JobIds
      BY DEF Inv, TypeOK, Run
    <3>2. CASE Holds(w) /\ Holds(v)
      BY <2>1, <3>2 DEF Inv, HandsOK
    <3>3. CASE pc[w] = "claiming" /\ pc[v] = "claiming"
      BY <2>1, <3>1, <3>3 DEF Inv, LocksOK, RowsOK, Has, IsQueued
    <3>4. CASE Holds(w) /\ pc[v] = "claiming"
      BY <3>1, <3>4 DEF Inv, HandsOK, LocksOK, ClaimedOK
    <3>5. CASE pc[w] = "claiming" /\ Holds(v)
      BY <3>1, <3>5 DEF Inv, HandsOK, LocksOK, ClaimedOK
    <3> QED BY <2>1, <3>2, <3>3, <3>4, <3>5 DEF Busy, Holds
  <2> QED BY <2>1 DEF RunAtMostOnce, Inv, ClaimedOK
<1> QED BY <1>1, InvHolds, PTL

-----------------------------------------------------------------------------
(* Timeouts: a stale check never declares the job of a live horse stale,   *)
(* for every choice of timeouts, as long as the pick-up time and the grace *)
(* of the hard kill fit in the slack of fail_stale.                        *)


Watching(w) == pc[w] = "wait" /\ horse[w] \in LiveHorse

\* The row of the job a worker has in hand, and what the worker knows of it.
RowKnown(w, i) ==
  /\ job[i].timeout = run[w].timeout
  /\ pc[w] = "launch" => job[i].started = run[w].since
  /\ pc[w] = "wait" => run[w].since <= job[i].started + MaxPickup

TimesOK ==
  \A w \in Workers :
    /\ pc[w] \in {"claiming", "launch"} => now <= run[w].since + MaxPickup
    /\ Watching(w) /\ run[w].timeout > 0 =>
         now <= run[w].since + run[w].timeout + Grace
    /\ pc[w] \in {"claiming", "launch", "wait"} =>
         /\ run[w].ticket \in 1 .. tickets
         /\ \A i \in JobIds :
              Has(i) /\ job[i].ticket = run[w].ticket => RowKnown(w, i)

\* What most steps leave alone.
TimesKept ==
  /\ now' = now /\ tickets' = tickets
  /\ \A i \in JobIds :
       Has(i)' => /\ Has(i)
                  /\ job'[i].ticket = job[i].ticket
                  /\ job'[i].timeout = job[i].timeout
                  /\ job'[i].started = job[i].started
  /\ \A w \in Workers :
       pc'[w] \in {"claiming", "launch", "wait"} =>
         /\ pc'[w] = pc[w] /\ run'[w] = run[w]
         /\ horse'[w] \in LiveHorse => horse[w] \in LiveHorse

\* No row is started at first.
LEMMA TimesInit == Init => TimesOK
BY DEF Init, TimesOK, Watching

\* Steps that leave rows, clock and watching workers alone keep their times.
LEMMA KeptTimes ==
  ASSUME TimesOK, TimesKept
  PROVE  TimesOK'
BY DEF TimesOK, TimesKept, RowKnown, Watching, Has

\* Steps of callers other than enqueue, and of horses and idle workers.
LEMMA CallerTimes ==
  ASSUME Inv, TimesOK,
         \/ \E i \in JobIds : EnqueueFetch(i) \/ Cancel(i)
         \/ \E q \in Queues : Clear(q)
  PROVE  TimesOK'
<1>1. ASSUME NEW i \in JobIds, EnqueueFetch(i) PROVE TimesKept
  BY <1>1 DEF EnqueueFetch, TimesKept, Has
<1>2. ASSUME NEW i \in JobIds, Cancel(i) PROVE TimesKept
  BY <1>2 DEF Cancel, DeleteRow, AbsentRow, TimesKept, Has, Inv, TypeOK
<1>3. ASSUME NEW q \in Queues, Clear(q) PROVE TimesKept
  BY <1>3 DEF Clear, AbsentRow, TimesKept, Has, Inv, TypeOK
<1> QED BY <1>1, <1>2, <1>3, KeptTimes

\* Steps of workers that write to no row, and of horses.
LEMMA QuietTimes ==
  ASSUME Inv, TimesOK, NEW w \in Workers,
         \/ Start(w) \/ Kill(w) \/ Reap(w) \/ PollEmpty(w) \/ Stop(w)
         \/ Sleep(w) \/ WorkerDies(w) \/ Return(w) \/ Raise(w)
         \/ HorseExit(w) \/ HorseDies(w)
  PROVE  TimesOK'
<1>1. UNCHANGED <<job, now, tickets>>
  BY DEF Start, Kill, Reap, PollEmpty, Stop, Sleep, WorkerDies, Return,
         Raise, HorseExit, HorseDies
<1>2. ASSUME NEW v \in Workers, pc'[v] \in {"claiming", "launch", "wait"}
      PROVE  /\ pc'[v] = pc[v] /\ run'[v] = run[v]
             /\ horse'[v] \in LiveHorse => horse[v] \in LiveHorse
  BY <1>2 DEF Inv, TypeOK, HorseOK, LiveHorse, GoTo, HorseGoes, Forget, Exit,
              Start, Kill, Reap, PollEmpty, Stop, Sleep, WorkerDies, Return,
              Raise, HorseExit, HorseDies
<1>3. TimesKept
  BY <1>1, <1>2 DEF TimesKept, Has
<1> QED BY <1>3, KeptTimes

\* Steps that write to a row of the table but enqueue and dequeue.
LEMMA OutcomeTimes ==
  ASSUME Inv, TimesOK, NEW w \in Workers,
         ParentFail(w) \/ FailStale(w) \/ Finish(w) \/ HorseFail(w)
  PROVE  TimesOK'
<1>1. UNCHANGED <<now, tickets>>
  BY DEF ParentFail, FailStale, Finish, HorseFail
<1>2. ASSUME NEW i \in JobIds, Has(i)'
      PROVE  /\ Has(i) /\ job'[i].ticket = job[i].ticket
             /\ job'[i].timeout = job[i].timeout
             /\ job'[i].started = job[i].started
  <2>1. CASE ParentFail(w)
    BY <1>2, <2>1 DEF ParentFail, MarkFailed, Has, Inv, TypeOK, Row, Run
  <2>2. CASE FailStale(w)
    BY <1>2, <2>2 DEF FailStale, IsStale, Has, Inv, TypeOK, Row
  <2>3. CASE Finish(w)
    BY <1>2, <2>3 DEF Finish, DeleteRow, AbsentRow, Has, Inv, TypeOK, Run
  <2>4. CASE HorseFail(w)
    BY <1>2, <2>4 DEF HorseFail, MarkFailed, Has, Inv, TypeOK, Row, Run
  <2> QED BY <2>1, <2>2, <2>3, <2>4
<1>3. ASSUME NEW v \in Workers, pc'[v] \in {"claiming", "launch", "wait"}
      PROVE  /\ pc'[v] = pc[v] /\ run'[v] = run[v]
             /\ horse'[v] \in LiveHorse => horse[v] \in LiveHorse
  BY <1>3 DEF Inv, TypeOK, LiveHorse, GoTo, HorseGoes, ParentFail, FailStale,
              Finish, HorseFail
<1>4. TimesKept
  BY <1>1, <1>2, <1>3 DEF TimesKept
<1> QED BY <1>4, KeptTimes

\* A new row carries a ticket no worker has.
LEMMA EnqueueTimes ==
  ASSUME Inv, TimesOK, NEW i \in JobIds, NEW q \in Queues,
         NEW t \in Timeouts, NEW d \in Delays, Enqueue(i, q, t, d)
  PROVE  TimesOK'
<1>1. /\ UNCHANGED <<now, pc, run, horse>>
      /\ tickets \in Nat /\ tickets' = tickets + 1
      /\ job'[i].ticket = tickets + 1
      /\ \A j \in JobIds \ {i} : job'[j] = job[j]
  BY DEF Enqueue, NewRow, Inv, TypeOK
<1> QED BY <1>1 DEF TimesOK, RowKnown, Watching, Has

\* A dequeue notes the time of its lock, which becomes started_at.
LEMMA ClaimTimes ==
  ASSUME Inv, TimesOK, NEW w \in Workers, Claim(w)
  PROVE  TimesOK'
<1>1. PICK i \in Candidates(w) :
        run' = [run EXCEPT ![w] =
                  [id |-> i, ticket |-> job[i].ticket,
                   timeout |-> job[i].timeout, since |-> now,
                   why |-> "died"]]
  BY DEF Claim
<1>2. i \in JobIds /\ IsQueued(i)
  BY DEF Candidates, IsDue
<1>3. /\ UNCHANGED <<job, now, tickets, horse>>
      /\ pc'[w] = "claiming"
      /\ run'[w].ticket = job[i].ticket /\ run'[w].timeout = job[i].timeout
      /\ run'[w].since = now
      /\ \A v \in Workers \ {w} : run'[v] = run[v] /\ pc'[v] = pc[v]
  BY <1>1 DEF Claim, GoTo, Inv, TypeOK
<1>4. \A j \in JobIds : Has(j) /\ job[j].ticket = job[i].ticket => j = i
  BY <1>2 DEF Inv, RowsOK, Has, IsQueued
<1>5. job[i].ticket \in 1 .. tickets
  BY <1>2 DEF Inv, RowsOK, Has, IsQueued
<1>6. now <= now + MaxPickup
  BY BoundsAssumption DEF Inv, TypeOK
<1> QED BY <1>3, <1>4, <1>5, <1>6 DEF TimesOK, RowKnown, Watching, Has

\* The commit stores started_at, at most MaxPickup ago.
LEMMA CommitTimes ==
  ASSUME Inv, TimesOK, NEW w \in Workers, CommitClaim(w)
  PROVE  TimesOK'
<1> DEFINE k == run[w].id
<1>1. /\ UNCHANGED <<now, tickets, run, horse>>
      /\ pc[w] = "claiming" /\ pc'[w] = "launch"
      /\ \A v \in Workers \ {w} : pc'[v] = pc[v]
      /\ k \in JobIds /\ IsQueued(k) /\ job[k].ticket = run[w].ticket
  BY DEF CommitClaim, GoTo, Inv, TypeOK, LocksOK, Run
<1>2. /\ job'[k].ticket = job[k].ticket /\ job'[k].timeout = job[k].timeout
      /\ job'[k].started = run[w].since
      /\ \A j \in JobIds \ {k} : job'[j] = job[j]
  BY <1>1 DEF CommitClaim, Inv, TypeOK, Row
<1>3. \A j \in JobIds \ {k} : Has(j) => job[j].ticket # run[w].ticket
  BY <1>1 DEF Inv, RowsOK, Has, IsQueued
<1>4. Has(k) /\ run[w].timeout = job[k].timeout
  BY <1>1 DEF TimesOK, RowKnown, Has, IsQueued
<1>5. \A v \in Workers \ {w} :
        pc[v] \in {"launch", "wait"} => run[v].ticket # job[k].ticket
  BY <1>1 DEF Inv, HandsOK, ClaimedOK, Holds
<1>6. \A v \in Workers \ {w} :
        pc[v] = "claiming" => run[v].ticket # job[k].ticket
  <2>1. \A v \in Workers : run[v].id \in JobIds
    BY DEF Inv, TypeOK, Run
  <2> QED BY <1>1, <2>1 DEF Inv, LocksOK, RowsOK, Has, IsQueued
<1> HIDE DEF k
<1>7. ASSUME NEW v \in Workers,
             pc'[v] \in {"claiming", "launch", "wait"},
             NEW i \in JobIds, Has(i)', job'[i].ticket = run[v].ticket
      PROVE  RowKnown(v, i)'
  <2>1. CASE v = w
    <3>1. i = k
      BY <1>2, <1>3, <1>7, <2>1 DEF Has
    <3> QED BY <1>1, <1>2, <1>4, <2>1, <3>1 DEF RowKnown
  <2>2. CASE v # w
    <3>1. i # k /\ job'[i] = job[i] /\ Has(i) /\ pc'[v] = pc[v]
      BY <1>1, <1>2, <1>5, <1>6, <1>7, <2>2 DEF Has
    <3>2. RowKnown(v, i)
      BY <1>7, <3>1 DEF TimesOK
    <3> QED BY <1>1, <3>1, <3>2 DEF RowKnown
  <2> QED BY <2>1, <2>2
<1>8. \A v \in Workers : Watching(v)' => Watching(v)
  BY <1>1 DEF Watching
<1>9. run[w].ticket \in 1 .. tickets /\ now <= run[w].since + MaxPickup
  BY <1>1 DEF TimesOK
<1> QED BY <1>1, <1>7, <1>8, <1>9 DEF TimesOK

\* The fork happens at most MaxPickup after started_at.
LEMMA ForkTimes ==
  ASSUME Inv, TimesOK, NEW w \in Workers, Fork(w)
  PROVE  TimesOK'
<1>1. /\ UNCHANGED <<job, now, tickets>>
      /\ pc[w] = "launch" /\ pc'[w] = "wait" /\ run'[w].since = now
      /\ run'[w].ticket = run[w].ticket /\ run'[w].timeout = run[w].timeout
      /\ \A v \in Workers \ {w} :
           run'[v] = run[v] /\ pc'[v] = pc[v] /\ horse'[v] = horse[v]
  BY DEF Fork, GoTo, Inv, TypeOK, Run
<1>2. \A i \in JobIds :
        Has(i) /\ job[i].ticket = run[w].ticket =>
          now <= job[i].started + MaxPickup
  BY <1>1 DEF TimesOK, RowKnown
<1>3. run[w].timeout \in Nat /\ now \in Nat
  BY DEF Inv, TypeOK, Run
<1>4. ASSUME NEW v \in Workers, v # w
      PROVE  /\ pc'[v] = pc[v] /\ run'[v] = run[v]
             /\ Watching(v)' <=> Watching(v)
             /\ \A i \in JobIds : RowKnown(v, i)' <=> RowKnown(v, i)
  BY <1>1, <1>4 DEF Watching, RowKnown
<1>5. /\ pc'[w] = "wait" /\ run[w].ticket \in 1 .. tickets
      /\ \A i \in JobIds :
           Has(i) /\ job[i].ticket = run[w].ticket => RowKnown(w, i)'
  BY <1>1, <1>2 DEF TimesOK, RowKnown
<1>6. now <= now + run[w].timeout + Grace
  BY <1>3, BoundsAssumption
<1>7. \A i \in JobIds : Has(i)' <=> Has(i)
  BY <1>1 DEF Has
<1>8. ASSUME NEW v \in Workers
      PROVE  /\ pc'[v] \in {"claiming", "launch"} =>
                  now' <= run'[v].since + MaxPickup
             /\ Watching(v)' /\ run'[v].timeout > 0 =>
                  now' <= run'[v].since + run'[v].timeout + Grace
             /\ pc'[v] \in {"claiming", "launch", "wait"} =>
                  /\ run'[v].ticket \in 1 .. tickets'
                  /\ \A i \in JobIds :
                       Has(i)' /\ job'[i].ticket = run'[v].ticket
                         => RowKnown(v, i)'
  <2>1. CASE v = w
    BY <1>1, <1>5, <1>6, <1>7, <2>1
  <2>2. CASE v # w
    BY <1>1, <1>4, <1>7, <2>2 DEF TimesOK
  <2> QED BY <2>1, <2>2
<1> QED BY <1>8 DEF TimesOK

\* A tick does not pass the deadline of a pick-up or of a live horse.
LEMMA TickTimes ==
  ASSUME Inv, TimesOK, Tick
  PROVE  TimesOK'
<1>1. /\ UNCHANGED <<job, tickets, pc, run, horse>> /\ now' = now + 1
  BY DEF Tick
<1>2. \A w \in Workers : run[w].since \in Nat /\ run[w].timeout \in Nat
  BY DEF Inv, TypeOK, Run
<1>3. now \in Nat /\ MaxPickup \in Nat /\ Grace \in Nat
  BY BoundsAssumption DEF Inv, TypeOK
<1>4. \A w \in Workers :
        /\ pc[w] \in {"claiming", "launch"} => now' <= run[w].since + MaxPickup
        /\ Watching(w) /\ run[w].timeout > 0 =>
             now' <= run[w].since + run[w].timeout + Grace
  BY <1>1, <1>2, <1>3 DEF Tick, PastDeadline, Watching
<1> QED BY <1>1, <1>4 DEF TimesOK, RowKnown, Watching, Has

\* Every step keeps the relation of the times.
LEMMA TimesStep == Inv /\ TimesOK /\ [Next]_vars => TimesOK'
<1> SUFFICES ASSUME Inv, TimesOK, [Next]_vars PROVE TimesOK'
  OBVIOUS
<1>1. CASE UNCHANGED vars
  BY <1>1 DEF vars, TimesOK, RowKnown, Watching, Has
<1> QED
  BY <1>1, CallerTimes, QuietTimes, OutcomeTimes, EnqueueTimes, ClaimTimes,
     CommitTimes, ForkTimes, TickTimes
     DEF Next, CallerNext, WorkerStep, HorseStep

\* What fail_stale says of the jobs it marks: a worker that is launching or
\* watching a live horse never has a job that a stale check would fail.
THEOREM StaleIsGone == Spec => []StaleMeansWorkerGone
<1>1. Inv /\ TimesOK => StaleMeansWorkerGone
  <2> SUFFICES ASSUME Inv, TimesOK,
                      NEW i \in JobIds, NEW w \in Workers,
                      IsStale(i), run[w].ticket = job[i].ticket
               PROVE  /\ pc[w] # "launch"
                      /\ pc[w] = "wait" => horse[w] \notin LiveHorse
    BY DEF StaleMeansWorkerGone
  <2>1. /\ job[i].started \in Nat /\ job[i].timeout \in Nat
        /\ run[w].since \in Nat /\ now \in Nat
        /\ MaxPickup \in Nat /\ Grace \in Nat /\ StaleSlack \in Nat
    BY BoundsAssumption DEF Inv, TypeOK, Row, Run
  <2>2. /\ Has(i) /\ job[i].timeout > 0
        /\ job[i].started + job[i].timeout + StaleSlack < now
    BY DEF IsStale, Has
  <2>3. MaxPickup + Grace <= StaleSlack
    BY SlackAssumption
  <2>4. ASSUME pc[w] = "launch" PROVE FALSE
    <3>1. job[i].started = run[w].since /\ now <= run[w].since + MaxPickup
      BY <2>2, <2>4 DEF TimesOK, RowKnown
    <3> QED BY <2>1, <2>2, <2>3, <3>1
  <2>5. ASSUME Watching(w) PROVE FALSE
    <3>1. /\ run[w].since <= job[i].started + MaxPickup
          /\ job[i].timeout = run[w].timeout
          /\ now <= run[w].since + run[w].timeout + Grace
      BY <2>2, <2>5 DEF TimesOK, RowKnown, Watching
    <3> QED BY <2>1, <2>2, <2>3, <3>1
  <2> QED BY <2>4, <2>5 DEF Watching
<1> QED BY <1>1, TimesInit, TimesStep, InvHolds, PTL DEF Spec

-----------------------------------------------------------------------------
(* Outcomes.  When every id is stored once (CallerIds = {}), the row under *)
(* the id of a job in hand is its own; from this follows that outcomes are *)
(* kept and that the job queue implements JobPromise.                      *)

\* The row under the id of a job in hand is the row of that job.
OwnOK ==
  \A w \in Workers :
    Holds(w) /\ Has(run[w].id) => job[run[w].id].ticket = run[w].ticket

\* Nothing is in hand at first.
LEMMA OwnInit == Init => OwnOK
BY DEF Init, OwnOK, Holds, LiveHorse

\* Steps that only take away keep the rows of jobs in hand their own.
LEMMA OwnShrinks ==
  ASSUME Inv, OwnOK, Shrinks
  PROVE  OwnOK'
<1>1. ASSUME NEW w \in Workers, Holds(w)', Has(run[w].id)'
      PROVE  job'[run'[w].id].ticket = run'[w].ticket
  <2>1. run[w].id \in JobIds /\ run'[w].id = run[w].id
    BY <1>1 DEF Inv, TypeOK, Run, Shrinks, HandsShrink
  <2>2. Has(run[w].id) /\ job'[run[w].id].ticket = job[run[w].id].ticket
    BY <1>1, <2>1 DEF Shrinks, TableShrinks, Has
  <2> QED BY <1>1, <2>1, <2>2 DEF OwnOK, Shrinks, HandsShrink
<1> QED BY <1>1 DEF OwnOK, Has

\* Steps of workers and horses, apart from the dequeue, only take away.
LEMMA WorkerShrinks ==
  ASSUME Inv, NEW w \in Workers,
         \/ Start(w) \/ Fork(w) \/ Kill(w) \/ Reap(w) \/ ParentFail(w)
         \/ PollEmpty(w) \/ Stop(w) \/ Sleep(w) \/ FailStale(w)
         \/ WorkerDies(w) \/ Return(w) \/ Raise(w) \/ Finish(w)
         \/ HorseFail(w) \/ HorseExit(w) \/ HorseDies(w)
  PROVE  Shrinks
BY StartShrinks, ForkShrinks, KillShrinks, ReapShrinks, ParentFailShrinks,
   PollShrinks, FailStaleShrinks, WorkerDiesShrinks, ReturnShrinks,
   FinishShrinks, HorseFailShrinks, HorseExitShrinks

\* Callers take away when they do not enqueue.
LEMMA CallerShrinks ==
  ASSUME Inv,
         \/ \E i \in JobIds : EnqueueFetch(i) \/ Cancel(i)
         \/ \E q \in Queues : Clear(q)
  PROVE  Shrinks
BY EnqueueFetchShrinks, CancelShrinks, ClearShrinks

\* An id is not stored again while a job under it is in hand.
LEMMA OwnStep == CallerIds = {} /\ Inv /\ OwnOK /\ [Next]_vars => OwnOK'
<1> SUFFICES ASSUME CallerIds = {}, Inv, OwnOK, [Next]_vars PROVE OwnOK'
  OBVIOUS
<1>1. ASSUME NEW i \in JobIds, NEW q \in Queues, NEW t \in Timeouts,
             NEW d \in Delays, Enqueue(i, q, t, d)
      PROVE  OwnOK'
  <2>1. i \notin used /\ \A j \in JobIds \ {i} : job'[j] = job[j]
    BY <1>1 DEF Enqueue, Inv, TypeOK
  <2>2. UNCHANGED <<pc, run, horse>>
    BY <1>1 DEF Enqueue
  <2>3. \A w \in Workers : Holds(w)' => /\ Holds(w)
                                       /\ run[w].id \in JobIds \ {i}
    BY <2>1, <2>2 DEF Holds, Inv, HandsOK, TypeOK, Run
  <2> QED BY <2>1, <2>2, <2>3 DEF OwnOK, Has
<1>2. ASSUME NEW w \in Workers, Claim(w) PROVE OwnOK'
  <2>1. /\ UNCHANGED <<job, horse>>
        /\ pc[w] = "idle" /\ pc'[w] = "claiming"
        /\ \A v \in Workers \ {w} : run'[v] = run[v] /\ pc'[v] = pc[v]
    BY <1>2 DEF Claim, GoTo, Inv, TypeOK
  <2>2. \A v \in Workers : Holds(v)' => v # w /\ Holds(v)
    BY <2>1 DEF Inv, HorseOK, Holds, LiveHorse
  <2> QED BY <2>1, <2>2 DEF OwnOK, Has
<1>3. ASSUME NEW w \in Workers, CommitClaim(w) PROVE OwnOK'
  <2>1. /\ UNCHANGED <<run, horse>>
        /\ pc[w] = "claiming" /\ run[w].id \in JobIds
        /\ IsQueued(run[w].id)
        /\ job[run[w].id].ticket = run[w].ticket
        /\ \A v \in Workers \ {w} : pc'[v] = pc[v]
    BY <1>3 DEF CommitClaim, GoTo, Inv, TypeOK, LocksOK, Run
  <2>2. \A j \in JobIds : /\ job'[j].ticket = job[j].ticket
                          /\ Has(j)' => Has(j)
    BY <1>3, <2>1 DEF CommitClaim, Inv, TypeOK, Row, Has, IsQueued
  <2>3. ASSUME NEW v \in Workers, Holds(v)', Has(run[v].id)'
        PROVE  job'[run'[v].id].ticket = run'[v].ticket
    <3>1. run[v].id \in JobIds /\ run'[v] = run[v]
      BY <2>1 DEF Inv, TypeOK, Run
    <3>2. CASE v = w
      BY <2>1, <2>2, <3>1, <3>2
    <3>3. CASE v # w
      <4>1. Holds(v)
        BY <2>1, <2>3, <3>3 DEF Holds
      <4>2. Has(run[v].id)
        BY <2>2, <2>3, <3>1 DEF Has
      <4> QED BY <2>2, <3>1, <4>1, <4>2 DEF OwnOK
    <3> QED BY <3>2, <3>3
  <2> QED BY <2>3 DEF OwnOK, Has
<1>4. CASE Tick \/ UNCHANGED vars
  BY <1>4 DEF Tick, vars, OwnOK, Holds, Has
<1> QED
  BY <1>1, <1>2, <1>3, <1>4, WorkerShrinks, CallerShrinks, OwnShrinks
     DEF Next, CallerNext, WorkerStep, HorseStep

-----------------------------------------------------------------------------
(* Outcomes are kept                                                       *)
(*                                                                         *)
(* A row changes in one of six ways, and none of them loses a started job  *)
(* or a traceback: a worker that records that its horse died found the row *)
(* unresolved, and nobody has written to it since.                         *)

Failed(i, why) == [job[i] EXCEPT !.status = "failed", !.error = why]

\* What becomes of the row i that a step changes.
Changes(i) ==
  \/ ~Has(i) /\ job'[i].error = "none" /\ job'[i].status = "queued"
  \/ /\ job'[i] = AbsentRow
     /\ \/ Cancel(i) \/ IsQueued(i)
        \/ \E w \in Workers : horse[w] = "returned" /\ run[w].id = i
  \/ /\ IsQueued(i) /\ job'[i].status = "started"
     /\ job'[i].error = job[i].error
  \/ \E w \in Workers : /\ horse[w] = "raised" /\ run[w].id = i /\ Has(i)
                        /\ job'[i] = Failed(i, "traceback")
  \/ \E w \in Workers : /\ pc[w] = "fail" /\ run[w].id = i
                        /\ job'[i] = Failed(i, run[w].why)
  \/ IsStale(i) /\ job'[i] = Failed(i, "stale")

\* The row of an id that is marked as failed, and the others.
LEMMA MarkFailedRow ==
  ASSUME TypeOK, NEW j \in JobIds, NEW why, MarkFailed(j, why),
         NEW i \in JobIds, job'[i] # job[i]
  PROVE  i = j /\ Has(i) /\ job'[i] = Failed(i, why)
<1>1. Has(j) /\ job' = [job EXCEPT ![j].status = "failed", ![j].error = why]
  BY DEF MarkFailed
<1>2. job \in [JobIds -> Row]
  BY DEF TypeOK
<1>3. i = j
  BY <1>1, <1>2
<1>4. job'[j] = Failed(j, why)
  BY <1>1, <1>2 DEF Failed, Row
<1> QED BY <1>1, <1>3, <1>4

\* No step changes a row in another way, when ids are stored once.
LEMMA RowChanges ==
  ASSUME CallerIds = {}, Inv, [Next]_vars,
         NEW i \in JobIds, job'[i] # job[i]
  PROVE  Changes(i)
<1>1. ASSUME NEW j \in JobIds, NEW q \in Queues, NEW t \in Timeouts,
             NEW d \in Delays, Enqueue(j, q, t, d)
      PROVE  Changes(i)
  <2>1. j \notin used /\ job' = [job EXCEPT ![j] = NewRow(q, t, d)]
    BY <1>1 DEF Enqueue
  <2>2. i = j /\ job'[i] = NewRow(q, t, d)
    BY <2>1 DEF Inv, TypeOK
  <2>3. ~Has(i)
    BY <2>1, <2>2 DEF Inv, RowsOK
  <2> QED BY <2>2, <2>3 DEF Changes, NewRow
<1>2. ASSUME NEW j \in JobIds, EnqueueFetch(j) \/ Cancel(j)
      PROVE  Changes(i)
  BY <1>2 DEF EnqueueFetch, Cancel, DeleteRow, Changes, Inv, TypeOK
<1>3. ASSUME NEW q \in Queues, Clear(q) PROVE Changes(i)
  BY <1>3 DEF Clear, Clearable, Changes
<1>4. ASSUME NEW w \in Workers, CommitClaim(w) PROVE Changes(i)
  <2>1. /\ run[w].id \in JobIds /\ IsQueued(run[w].id)
        /\ job' = [job EXCEPT ![run[w].id].status = "started",
                              ![run[w].id].started = run[w].since]
    BY <1>4 DEF CommitClaim, GoTo, Inv, LocksOK, TypeOK, Run
  <2>2. i = run[w].id
    BY <2>1 DEF Inv, TypeOK
  <2>3. job'[i].status = "started" /\ job'[i].error = job[i].error
    BY <2>1, <2>2 DEF Inv, TypeOK, Row
  <2> QED BY <2>1, <2>2, <2>3 DEF Changes
<1>5. ASSUME NEW w \in Workers, ParentFail(w) PROVE Changes(i)
  <2>1. run[w].id \in JobIds
    BY DEF Inv, TypeOK, Run
  <2>2. pc[w] = "fail" /\ MarkFailed(run[w].id, run[w].why)
    BY <1>5 DEF ParentFail, GoTo
  <2>3. i = run[w].id /\ job'[i] = Failed(i, run[w].why)
    BY <2>1, <2>2, MarkFailedRow DEF Inv
  <2> QED BY <2>2, <2>3 DEF Changes
<1>6. ASSUME NEW w \in Workers, HorseFail(w) PROVE Changes(i)
  <2>1. run[w].id \in JobIds
    BY DEF Inv, TypeOK, Run
  <2>2. horse[w] = "raised" /\ MarkFailed(run[w].id, "traceback")
    BY <1>6 DEF HorseFail, HorseGoes
  <2>3. i = run[w].id /\ Has(i) /\ job'[i] = Failed(i, "traceback")
    BY <2>1, <2>2, MarkFailedRow DEF Inv
  <2> QED BY <2>2, <2>3 DEF Changes
<1>7. ASSUME NEW w \in Workers, Finish(w) PROVE Changes(i)
  <2>1. /\ horse[w] = "returned"
        /\ job' = [job EXCEPT ![run[w].id] = AbsentRow]
    BY <1>7 DEF Finish, HorseGoes, DeleteRow
  <2>2. i = run[w].id /\ job'[i] = AbsentRow
    BY <2>1 DEF Inv, TypeOK
  <2> QED BY <2>1, <2>2 DEF Changes
<1>8. ASSUME NEW w \in Workers, FailStale(w) PROVE Changes(i)
  <2>1. IsStale(i) /\ job'[i] = Failed(i, "stale")
    BY <1>8 DEF FailStale, Failed
  <2> QED BY <2>1 DEF Changes
<1>9. ASSUME NEW w \in Workers,
             \/ Start(w) \/ Claim(w) \/ Fork(w) \/ Kill(w) \/ Reap(w)
             \/ PollEmpty(w) \/ Stop(w) \/ Sleep(w) \/ WorkerDies(w)
             \/ Return(w) \/ Raise(w) \/ HorseExit(w) \/ HorseDies(w)
      PROVE  FALSE
  BY <1>9 DEF Start, Claim, Fork, Kill, Reap, PollEmpty, Stop, Sleep,
              WorkerDies, Return, Raise, HorseExit, HorseDies
<1>10. CASE Tick \/ UNCHANGED vars
  BY <1>10 DEF Tick, vars
<1> QED
  BY <1>1, <1>2, <1>3, <1>4, <1>5, <1>6, <1>7, <1>8, <1>9, <1>10
     DEF Next, CallerNext, WorkerStep, HorseStep

\* A traceback is on a failed row only, and not on the row of a worker that
\* is about to record that its horse died.
TracesOK ==
  /\ \A i \in JobIds : job[i].error = "traceback" => job[i].status = "failed"
  /\ \A w \in Workers : pc[w] = "fail" /\ run[w].why = "died" =>
                          job[run[w].id].error # "traceback"

\* Nothing has failed at first.
LEMMA TracesInit == Init => TracesOK
BY BoundsAssumption DEF Init, TracesOK, AbsentRow, NoRun

\* A worker comes to record a death from a reaped horse, whose row it found
\* unresolved.
LEMMA AboutToFail ==
  ASSUME Inv, [Next]_vars, NEW w \in Workers,
         pc'[w] = "fail", run'[w].why = "died"
  PROVE  /\ run'[w] = run[w]
         /\ \/ pc[w] = "fail"
            \/ /\ job' = job
               /\ job[run[w].id].status \in {"queued", "started"}
<1>1. pc \in [Workers -> WorkerPc] /\ run \in [Workers -> Run]
  BY DEF Inv, TypeOK
<1>2. CASE CallerNext \/ Tick \/ UNCHANGED vars
  BY <1>2 DEF CallerNext, Enqueue, EnqueueFetch, Cancel, Clear, Tick, vars
<1>3. ASSUME NEW v \in Workers, Kill(v) PROVE run'[w] = run[w] /\ pc[w] = "fail"
  <2>1. v # w
    BY <1>1, <1>3 DEF Kill, Run
  <2> QED BY <1>1, <1>3, <2>1 DEF Kill, GoTo
<1>4. ASSUME NEW v \in Workers, Reap(v)
      PROVE  /\ run'[w] = run[w]
             /\ \/ pc[w] = "fail"
                \/ /\ job' = job
                   /\ job[run[w].id].status \in {"queued", "started"}
  <2>1. CASE v = w
    BY <1>1, <1>4, <2>1 DEF Reap, GoTo, Unresolved
  <2>2. CASE v # w
    BY <1>1, <1>4, <2>2 DEF Reap, GoTo
  <2> QED BY <2>1, <2>2
<1>5. ASSUME NEW v \in Workers,
             \/ Start(v) \/ Claim(v) \/ CommitClaim(v) \/ Fork(v)
             \/ ParentFail(v) \/ PollEmpty(v) \/ Stop(v) \/ Sleep(v)
             \/ FailStale(v)
      PROVE  run'[w] = run[w] /\ pc[w] = "fail"
  BY <1>1, <1>5 DEF Start, Claim, CommitClaim, Fork, ParentFail, PollEmpty,
                    Stop, Sleep, FailStale, GoTo
<1>6. ASSUME NEW v \in Workers, WorkerDies(v)
      PROVE  run'[w] = run[w] /\ pc[w] = "fail"
  BY <1>1, <1>6 DEF WorkerDies, Forget
<1>7. ASSUME NEW v \in Workers,
             \/ Return(v) \/ Raise(v) \/ Finish(v) \/ HorseFail(v)
             \/ HorseExit(v) \/ HorseDies(v)
      PROVE  run'[w] = run[w] /\ pc[w] = "fail"
  BY <1>1, <1>7 DEF Return, Raise, Finish, HorseFail, HorseExit, HorseDies,
                    Exit, Forget
<1> QED BY <1>2, <1>3, <1>4, <1>5, <1>6, <1>7 DEF Next, WorkerStep, HorseStep

\* A traceback is written by the horse of the job, whose worker is not about
\* to record anything.
LEMMA TracesStep ==
  ASSUME CallerIds = {}, Inv, OwnOK, TracesOK, [Next]_vars
  PROVE  TracesOK'
<1>1. ASSUME NEW i \in JobIds, job'[i].error = "traceback"
      PROVE  /\ job'[i].status = "failed"
             /\ \/ job[i].error = "traceback"
                \/ \E v \in Workers : horse[v] = "raised" /\ run[v].id = i /\ Has(i)
  <2>1. job[i] \in Row
    BY DEF Inv, TypeOK
  <2>2. CASE job'[i] = job[i]
    BY <1>1, <2>2 DEF TracesOK
  <2>3. CASE job'[i] # job[i]
    <3>1. Changes(i)
      BY <2>3, RowChanges
    <3>2. AbsentRow.error = "none" /\ AbsentRow.status = "absent"
      BY DEF AbsentRow
    <3>3. \A why : Failed(i, why).status = "failed" /\ Failed(i, why).error = why
      BY <2>1 DEF Failed, Row
    <3>4. ASSUME NEW w \in Workers, pc[w] = "fail"
          PROVE  run[w].why = "died" \/ run[w].why = "timeout"
      BY DEF Inv, TypeOK, Run
    <3>5. IsQueued(i) => job[i].error # "traceback"
      BY DEF TracesOK, IsQueued
    <3> QED BY <1>1, <3>1, <3>2, <3>3, <3>4, <3>5 DEF Changes
  <2> QED BY <2>2, <2>3
<1>2. ASSUME NEW w \in Workers, pc'[w] = "fail", run'[w].why = "died",
             job'[run'[w].id].error = "traceback"
      PROVE  FALSE
  <2>1. PICK i \in JobIds : i = run[w].id /\ i = run'[w].id
    BY <1>2, AboutToFail DEF Inv, TypeOK, Run
  <2>2. run'[w] = run[w] /\ job[i].error # "traceback" /\ pc[w] = "fail"
    BY <1>2, <2>1, AboutToFail DEF TracesOK
  <2>3. PICK v \in Workers : horse[v] = "raised" /\ run[v].id = i /\ Has(i)
    BY <1>1, <1>2, <2>1, <2>2
  <2>4. v # w /\ Holds(v) /\ Holds(w)
    BY <2>2, <2>3 DEF Inv, HorseOK, Holds, LiveHorse
  <2>5. job[i].ticket = run[v].ticket /\ job[i].ticket = run[w].ticket
    BY <2>1, <2>3, <2>4 DEF OwnOK
  <2> QED BY <2>4, <2>5 DEF Inv, HandsOK
<1> QED BY <1>1, <1>2 DEF TracesOK

\* Without ids that callers use again, a started job stays until its own
\* function has returned or a caller cancels it, and the traceback of a horse
\* stays unless the horse is then killed at its deadline.
THEOREM OutcomesAreKept == CallerIds = {} => (Spec => OutcomeIsKept)
<1> DEFINE Kept == \A i \in JobIds :
      /\ job[i].status = "started" /\ job'[i].status \notin {"started", "failed"}
         => \/ Cancel(i)
            \/ \E w \in Workers : /\ horse[w] = "returned"
                                 /\ run[w].ticket = job[i].ticket
      /\ job[i].error = "traceback" /\ job'[i].ticket = job[i].ticket
         => \/ job'[i].error = "traceback"
            \/ \E w \in Workers : /\ pc[w] = "fail" /\ run[w].id = i
                                 /\ run[w].why = "timeout"
<1> SUFFICES ASSUME CallerIds = {} PROVE Spec => OutcomeIsKept
  OBVIOUS
<1>1. ASSUME Inv, OwnOK, TracesOK, [Next]_vars PROVE Kept
  <2> SUFFICES ASSUME NEW i \in JobIds, job'[i] # job[i],
                      job[i].status = "started" \/ job[i].error = "traceback"
               PROVE  Kept!(i)
    BY <1>1
  <2>1. /\ Changes(i) /\ Has(i) /\ ~IsQueued(i)
        /\ job[i] \in Row /\ job[i].ticket \in 1 .. tickets /\ tickets \in Nat
        /\ job[i].error = "traceback" => ~IsStale(i)
    BY <1>1, RowChanges
       DEF Inv, TypeOK, RowsOK, TracesOK, Has, IsQueued, IsStale
  <2>2. \A why : /\ Failed(i, why).status = "failed"
                 /\ Failed(i, why).error = why
    BY <2>1 DEF Failed, Row
  <2>3. CASE job'[i] = AbsentRow
    <3>1. Cancel(i) \/ \E w \in Workers : horse[w] = "returned" /\ run[w].id = i
      BY <2>1, <2>2, <2>3 DEF Changes, AbsentRow, Has
    <3>2. \A w \in Workers : horse[w] = "returned" /\ run[w].id = i =>
            run[w].ticket = job[i].ticket
      BY <1>1, <2>1 DEF OwnOK, Holds, LiveHorse
    <3>3. job'[i].ticket # job[i].ticket
      BY <2>1, <2>3 DEF AbsentRow
    <3> QED BY <3>1, <3>2, <3>3
  <2>4. CASE \E w \in Workers : pc[w] = "fail" /\ run[w].id = i
                                /\ job'[i] = Failed(i, run[w].why)
    <3>1. PICK w \in Workers : pc[w] = "fail" /\ run[w].id = i
                               /\ job'[i] = Failed(i, run[w].why)
      BY <2>4
    <3>2. run[w].why \in {"died", "timeout"}
      BY <1>1 DEF Inv, TypeOK, Run
    <3>3. run[w].why = "died" => job[i].error # "traceback"
      BY <1>1, <3>1 DEF TracesOK
    <3> QED BY <2>2, <3>1, <3>2, <3>3
  <2>5. CASE job'[i] = Failed(i, "traceback")
    BY <2>2, <2>5
  <2>6. CASE IsStale(i) /\ job'[i] = Failed(i, "stale")
    BY <2>1, <2>2, <2>6
  <2> QED BY <2>1, <2>3, <2>4, <2>5, <2>6 DEF Changes
<1>2. Init => OwnOK /\ TracesOK
  BY OwnInit, TracesInit
<1>3. Inv /\ OwnOK /\ TracesOK /\ [Next]_vars => (OwnOK /\ TracesOK)'
  BY OwnStep, TracesStep
<1>4. Inv /\ OwnOK /\ TracesOK /\ [Next]_vars => [Kept]_vars
  BY <1>1
<1> QED BY <1>2, <1>3, <1>4, InvHolds, PTL DEF Spec, OutcomeIsKept

-----------------------------------------------------------------------------
(* The refinement *)

Waiting == {job[i].ticket : i \in {j \in JobIds : IsQueued(j)}}

Running == [w \in Workers |-> IF Holds(w) THEN run[w].ticket ELSE 0]

\* A step of the promise, or one it does not see.
PromiseStep == [Promise!Next]_(Promise!promise)

\* The rows that wait are the same as before.
WaitingSame ==
  \A i \in JobIds :
    /\ IsQueued(i)' <=> IsQueued(i)
    /\ IsQueued(i) => job'[i].ticket = job[i].ticket

\* A worker at most puts its job down: a stutter, or the end of a run.
LEMMA PutDownStep ==
  ASSUME Inv, NEW w \in Workers, HandsShrink, WaitingSame,
         tickets' = tickets,
         \A v \in Workers \ {w} :
           pc'[v] = pc[v] /\ run'[v] = run[v] /\ horse'[v] = horse[v]
  PROVE  PromiseStep
<1>1. Waiting' = Waiting
  BY DEF Waiting, WaitingSame
<1>2. \A v \in Workers \ {w} : Running'[v] = Running[v]
  BY DEF Running, Holds
<1>3. Holds(w)' => Holds(w) /\ run'[w].ticket = run[w].ticket
  BY DEF HandsShrink
<1>4. CASE Holds(w) /\ ~Holds(w)'
  <2>1. Running[w] # 0
    BY <1>4 DEF Running, Inv, HandsOK, ClaimedOK, TypeOK
  <2>2. Running' = [Running EXCEPT ![w] = 0]
    BY <1>2, <1>4 DEF Running
  <2>3. Promise!End(w)
    BY <1>1, <2>1, <2>2 DEF Promise!End, Running, Waiting
  <2> QED BY <2>3 DEF PromiseStep, Promise!Next
<1>5. CASE Holds(w) <=> Holds(w)'
  <2>1. Running' = Running
    BY <1>2, <1>3, <1>5 DEF Running
  <2> QED
    BY <1>1, <2>1 DEF PromiseStep, Promise!promise, Running, Waiting
<1> QED BY <1>3, <1>4, <1>5

\* Every step of a worker or horse but the dequeue puts a job down or is not
\* seen: the row of a job in hand does not wait.
LEMMA WorkerPromise ==
  ASSUME Inv, OwnOK, NEW w \in Workers,
         \/ Start(w) \/ Fork(w) \/ Kill(w) \/ Reap(w) \/ ParentFail(w)
         \/ PollEmpty(w) \/ Stop(w) \/ Sleep(w) \/ FailStale(w)
         \/ WorkerDies(w) \/ Return(w) \/ Raise(w) \/ Finish(w)
         \/ HorseFail(w) \/ HorseExit(w) \/ HorseDies(w)
  PROVE  PromiseStep
<1>1. HandsShrink /\ tickets' = tickets
  BY WorkerShrinks DEF Shrinks
<1>2. Holds(w) => ~IsQueued(run[w].id)
  BY DEF Inv, OwnOK, HandsOK, ClaimedOK, IsQueued, Has, TypeOK, Run
<1>3. WaitingSame
  <2>1. CASE ParentFail(w)
    BY <1>2, <2>1 DEF ParentFail, MarkFailed, GoTo, Holds, WaitingSame,
       IsQueued, Inv, TypeOK, Row, Run
  <2>2. CASE Finish(w)
    BY <1>2, <2>2 DEF Finish, DeleteRow, AbsentRow, HorseGoes, Holds,
       LiveHorse, WaitingSame, IsQueued, Inv, TypeOK, Row, Run
  <2>3. CASE HorseFail(w)
    BY <1>2, <2>3 DEF HorseFail, MarkFailed, HorseGoes, Holds, LiveHorse,
       WaitingSame, IsQueued, Inv, TypeOK, Row, Run
  <2>4. CASE FailStale(w)
    BY <2>4 DEF FailStale, IsStale, WaitingSame, IsQueued, Inv, TypeOK, Row
  <2>5. CASE UNCHANGED job
    BY <2>5 DEF WaitingSame, IsQueued
  <2> QED
    BY <2>1, <2>2, <2>3, <2>4, <2>5
       DEF Start, Fork, Kill, Reap, PollEmpty, Stop, Sleep, WorkerDies,
           Return, Raise, HorseExit, HorseDies
<1>4. \A v \in Workers \ {w} :
        pc'[v] = pc[v] /\ run'[v] = run[v] /\ horse'[v] = horse[v]
  BY DEF Inv, TypeOK, Start, Fork, Kill, Reap, ParentFail, PollEmpty, Stop,
         Sleep, FailStale, WorkerDies, Return, Raise, Finish, HorseFail,
         HorseExit, HorseDies, GoTo, HorseGoes, Forget, Exit
<1> QED BY <1>1, <1>3, <1>4, PutDownStep

\* Cancelling and clearing withdraw tickets.
LEMMA CallerPromise ==
  ASSUME Inv,
         \/ \E i \in JobIds : EnqueueFetch(i) \/ Cancel(i)
         \/ \E q \in Queues : Clear(q)
  PROVE  PromiseStep
<1>1. /\ UNCHANGED <<tickets, pc, run, horse>>
  BY DEF EnqueueFetch, Cancel, Clear
<1>2. Waiting' \subseteq Waiting
  BY CallerShrinks DEF Shrinks, TableShrinks, Waiting, IsQueued, Has
<1>3. Running' = Running
  BY <1>1 DEF Running, Holds
<1>4. Promise!Withdraw
  <2>1. Waiting \ Waiting' \in SUBSET Waiting
    OBVIOUS
  <2>2. Waiting' = Waiting \ (Waiting \ Waiting')
    BY <1>2
  <2> QED BY <1>1, <1>3, <2>1, <2>2 DEF Promise!Withdraw, Waiting, Running
<1> QED BY <1>4 DEF PromiseStep, Promise!Next

\* An enqueue submits the next ticket, under an id without a row.
LEMMA EnqueuePromise ==
  ASSUME CallerIds = {}, Inv, NEW i \in JobIds, NEW q \in Queues,
         NEW t \in Timeouts, NEW d \in Delays, Enqueue(i, q, t, d)
  PROVE  PromiseStep
<1>1. /\ UNCHANGED <<pc, run, horse>> /\ tickets' = tickets + 1
      /\ i \notin used
  BY DEF Enqueue
<1>2. ~IsQueued(i)
  BY <1>1 DEF Inv, RowsOK, Has, IsQueued
<1>3. /\ job'[i].status = "queued" /\ job'[i].ticket = tickets + 1
      /\ \A j \in JobIds \ {i} : job'[j] = job[j]
  BY DEF Enqueue, NewRow, Inv, TypeOK
<1>4. Waiting' = Waiting \cup {tickets + 1}
  BY <1>2, <1>3 DEF Waiting, IsQueued
<1>5. Running' = Running
  BY <1>1 DEF Running, Holds
<1>6. Promise!Submit
  BY <1>1, <1>4, <1>5 DEF Promise!Submit, Waiting, Running
<1> QED BY <1>6 DEF PromiseStep, Promise!Next

\* The commit of a dequeue takes a ticket; the lock before it is not seen.
LEMMA DequeuePromise ==
  ASSUME Inv, NEW w \in Workers, Claim(w) \/ CommitClaim(w)
  PROVE  PromiseStep
<1>1. CASE Claim(w)
  <2>1. /\ UNCHANGED <<job, tickets, horse>>
        /\ pc[w] = "idle" /\ pc'[w] = "claiming"
        /\ \A v \in Workers \ {w} : run'[v] = run[v] /\ pc'[v] = pc[v]
    BY <1>1 DEF Claim, GoTo, Inv, TypeOK
  <2>2. ~Holds(w)' /\ ~Holds(w)
    BY <2>1 DEF Inv, HorseOK, Holds, LiveHorse
  <2>3. Running' = Running
    BY <2>1, <2>2 DEF Running, Holds
  <2>4. Waiting' = Waiting
    BY <2>1 DEF Waiting, IsQueued
  <2> QED BY <2>1, <2>3, <2>4
          DEF PromiseStep, Promise!promise, Running, Waiting
<1>2. CASE CommitClaim(w)
  <2> DEFINE k == run[w].id
  <2>1. /\ UNCHANGED <<tickets, run, horse>>
        /\ pc[w] = "claiming" /\ pc'[w] = "launch"
        /\ \A v \in Workers \ {w} : pc'[v] = pc[v]
        /\ k \in JobIds /\ IsQueued(k) /\ job[k].ticket = run[w].ticket
    BY <1>2 DEF CommitClaim, GoTo, Inv, TypeOK, LocksOK, Run
  <2>2. /\ job'[k].status # "queued"
        /\ \A j \in JobIds \ {k} : job'[j] = job[j]
    BY <1>2, <2>1 DEF CommitClaim, IsQueued, Inv, TypeOK, Row
  <2> HIDE DEF k
  <2>3. \A j \in JobIds \ {k} :
          IsQueued(j) => job[j].ticket # run[w].ticket
    BY <2>1 DEF Inv, RowsOK, Has, IsQueued
  <2>4. Waiting' = Waiting \ {run[w].ticket}
    <3>1. \A j \in JobIds : IsQueued(j)' <=> IsQueued(j) /\ j # k
      BY <2>2 DEF IsQueued
    <3>2. ASSUME NEW x \in Waiting' PROVE x \in Waiting \ {run[w].ticket}
      <4>1. PICK j \in JobIds : IsQueued(j)' /\ x = job'[j].ticket
        BY <3>2 DEF Waiting
      <4>2. j # k /\ IsQueued(j) /\ x = job[j].ticket
        BY <2>2, <3>1, <4>1
      <4> QED BY <2>3, <4>2 DEF Waiting
    <3>3. ASSUME NEW x \in Waiting \ {run[w].ticket} PROVE x \in Waiting'
      <4>1. PICK j \in JobIds : IsQueued(j) /\ x = job[j].ticket
        BY <3>3 DEF Waiting
      <4>2. j # k
        BY <2>1, <3>3, <4>1
      <4> QED BY <2>2, <3>1, <4>1, <4>2 DEF Waiting
    <3> QED BY <3>2, <3>3
  <2>5. run[w].ticket \in Waiting
    BY <2>1 DEF Waiting
  <2>6. ~Holds(w) /\ Holds(w)'
    BY <2>1 DEF Inv, HorseOK, Holds, LiveHorse
  <2>7. Running[w] = 0 /\ Running' = [Running EXCEPT ![w] = run[w].ticket]
    BY <2>1, <2>6 DEF Running, Holds
  <2>8. Promise!Take(w)
    BY <2>1, <2>4, <2>5, <2>7 DEF Promise!Take, Running, Waiting
  <2> QED BY <2>8 DEF PromiseStep, Promise!Next
<1> QED BY <1>1, <1>2

\* Every step of the queue is a step of the promise or a stutter.
LEMMA NextPromise ==
  CallerIds = {} /\ Inv /\ OwnOK /\ [Next]_vars => PromiseStep
<1> SUFFICES ASSUME CallerIds = {}, Inv, OwnOK, [Next]_vars
             PROVE  PromiseStep
  OBVIOUS
<1>1. CASE Tick \/ UNCHANGED vars
  BY <1>1 DEF Tick, vars, PromiseStep, Promise!promise, IsQueued, Holds
<1> QED
  BY <1>1, EnqueuePromise, CallerPromise, DequeuePromise, WorkerPromise
     DEF Next, CallerNext, WorkerStep, HorseStep

\* A queue whose ids are all used once implements JobPromise: an enqueue
\* call is handed to one worker at most, once, and leaves the queue only by
\* being handed out or withdrawn by a caller.
THEOREM QueueKeepsPromise == CallerIds = {} => (Spec => KeepsPromise)
<1>1. Init => Promise!Init
  <2> SUFFICES ASSUME Init PROVE Promise!Init
    OBVIOUS
  <2>1. \A i \in JobIds : ~IsQueued(i)
    BY DEF Init, IsQueued, AbsentRow
  <2>2. \A w \in Workers : ~Holds(w)
    BY DEF Init, Holds, LiveHorse
  <2> QED BY <2>1, <2>2 DEF Init, Promise!Init
<1> SUFFICES ASSUME CallerIds = {} PROVE Spec => KeepsPromise
  OBVIOUS
<1>2. Inv /\ OwnOK /\ [Next]_vars => OwnOK'
  BY OwnStep
<1>3. Inv /\ OwnOK /\ [Next]_vars => [Promise!Next]_(Promise!promise)
  BY NextPromise DEF PromiseStep
<1> QED
  BY <1>1, <1>2, <1>3, OwnInit, InvHolds, PTL
     DEF Spec, KeepsPromise, Promise!Spec

-----------------------------------------------------------------------------
(* A claim follows the listing                                             *)

LEMMA LeastNumber ==
  ASSUME NEW T, T \subseteq Nat, T # {}
  PROVE  \E m \in T : \A n \in T : m <= n
<1> DEFINE R == OpToRel(<, Nat)
<1>1. IsWellFoundedOn(R, Nat)
  BY NatLessThanWellFounded
<1>2. \A x, y \in Nat : <<x, y>> \in R <=> x < y
  BY DEF OpToRel
<1> HIDE DEF R
<1>3. PICK m \in T : \A n \in T : <<n, m>> \notin R
  BY <1>1, WFMin
<1>4. \A n \in T : ~(n < m) /\ n \in Nat /\ m \in Nat
  BY <1>2, <1>3
<1>5. \A n \in T : m <= n
  BY <1>4
<1> QED BY <1>3, <1>5

\* The rows of a set have one that comes before all others.
LEMMA FirstRow ==
  ASSUME TypeOK, NEW S, S \subseteq JobIds, S # {}
  PROVE  \E i \in S : \A j \in S \ {i} : Before(i, j)
<1>1. /\ S \subseteq Nat
      /\ \A i \in S : job[i].sched \in Nat /\ job[i].created \in Nat
  BY BoundsAssumption DEF TypeOK, Row
<1>2. PICK t \in {job[i].sched : i \in S} : \A u \in {job[i].sched : i \in S} : t <= u
  BY <1>1, LeastNumber
<1> DEFINE A == {i \in S : job[i].sched = t}
<1>3. A # {} /\ A \subseteq S /\ t \in Nat /\ \A i \in S : t <= job[i].sched
  BY <1>1, <1>2
<1>4. PICK c \in {job[i].created : i \in A} : \A u \in {job[i].created : i \in A} : c <= u
  BY <1>1, <1>3, LeastNumber
<1> DEFINE B == {i \in A : job[i].created = c}
<1>5. B # {} /\ B \subseteq A /\ c \in Nat /\ \A i \in A : c <= job[i].created
  BY <1>1, <1>3, <1>4
<1>6. PICK i \in B : \A j \in B : i <= j
  BY <1>1, <1>3, <1>5, LeastNumber
<1>7. ASSUME NEW j \in S \ {i} PROVE Before(i, j)
  <2>1. /\ i \in Nat /\ j \in Nat /\ i # j /\ t <= job[j].sched /\ job[i].sched = t
        /\ job[i].created = c /\ job[j].sched \in Nat /\ job[j].created \in Nat
        /\ job[j].sched = t => c <= job[j].created
        /\ job[j].sched = t /\ job[j].created = c => i <= j
    BY <1>1, <1>3, <1>5, <1>6
  <2> QED BY <1>3, <1>5, <2>1 DEF Before
<1> QED BY <1>3, <1>5, <1>6, <1>7

\* The rows of a finite set can be listed.
Sorted(S) ==
  {s \in SetToSeqs(S) : \A m, n \in DOMAIN s : m < n => Before(s[m], s[n])}

LEMMA SortedIs ==
  ASSUME NEW S, IsFiniteSet(S), NEW s
  PROVE  s \in Sorted(S) <=>
           /\ s \in [1 .. Cardinality(S) -> S]
           /\ \A m, n \in 1 .. Cardinality(S) : m # n => s[m] # s[n]
           /\ \A m, n \in 1 .. Cardinality(S) : m < n => Before(s[m], s[n])
<1> DEFINE k == Cardinality(S)
<1> HIDE DEF k
<1>1. SetToSeqs(S) =
        {f \in [1 .. k -> S] : \A i, j \in 1 .. k : i # j => f[i] # f[j]}
  BY DEF SetToSeqs, k
<1>2. \A f \in [1 .. k -> S] : DOMAIN f = 1 .. k
  OBVIOUS
<1>3. s \in Sorted(S) <=>
           /\ s \in [1 .. k -> S]
           /\ \A m, n \in 1 .. k : m # n => s[m] # s[n]
           /\ \A m, n \in 1 .. k : m < n => Before(s[m], s[n])
  BY <1>1, <1>2 DEF Sorted
<1> QED BY <1>3 DEF k

LEMMA SortedStep ==
  ASSUME NEW S, IsFiniteSet(S), NEW i \in S, NEW t \in Sorted(S \ {i}),
         \A j \in S \ {i} : Before(i, j)
  PROVE  Sorted(S) # {}
<1> DEFINE n == Cardinality(S \ {i})
<1>1. IsFiniteSet(S \ {i}) /\ n \in Nat /\ Cardinality(S) = n + 1
  <2>1. /\ IsFiniteSet(S \ {i}) /\ Cardinality(S) \in Nat
        /\ Cardinality(S \ {i}) = Cardinality(S) - 1
    BY FS_RemoveElement, FS_CardinalityType
  <2>2. Cardinality(S \ {i}) \in Nat
    BY <2>1, FS_CardinalityType
  <2> QED BY <2>1, <2>2
<1>2. /\ t \in [1 .. n -> S \ {i}]
      /\ \A a, b \in 1 .. n : a # b => t[a] # t[b]
      /\ \A a, b \in 1 .. n : a < b => Before(t[a], t[b])
  BY <1>1, SortedIs
<1> HIDE DEF n
<1> DEFINE s == [a \in 1 .. n + 1 |-> IF a = 1 THEN i ELSE t[a - 1]]
<1>3. /\ s[1] = i
      /\ \A a \in 1 .. n + 1 : a # 1 => a - 1 \in 1 .. n /\ s[a] = t[a - 1]
  BY <1>1
<1>4. s \in [1 .. n + 1 -> S]
  BY <1>1, <1>2
<1> HIDE DEF s
<1>5. \A a, b \in 1 .. n + 1 : a # b => s[a] # s[b]
  <2> SUFFICES ASSUME NEW a \in 1 .. n + 1, NEW b \in 1 .. n + 1, a # b
               PROVE  s[a] # s[b]
    OBVIOUS
  <2>1. CASE a = 1
    BY <1>1, <1>2, <1>3, <2>1
  <2>2. CASE b = 1
    BY <1>1, <1>2, <1>3, <2>2
  <2>3. CASE a # 1 /\ b # 1
    <3>1. a - 1 # b - 1
      BY <1>1
    <3> QED BY <1>2, <1>3, <2>3, <3>1
  <2> QED BY <2>1, <2>2, <2>3
<1>6. \A a, b \in 1 .. n + 1 : a < b => Before(s[a], s[b])
  <2> SUFFICES ASSUME NEW a \in 1 .. n + 1, NEW b \in 1 .. n + 1, a < b
               PROVE  Before(s[a], s[b])
    OBVIOUS
  <2>1. b # 1 /\ b - 1 \in 1 .. n /\ s[b] = t[b - 1]
    BY <1>1, <1>3
  <2>2. CASE a = 1
    BY <1>2, <1>3, <2>1, <2>2
  <2>3. CASE a # 1
    <3>1. a - 1 \in 1 .. n /\ s[a] = t[a - 1] /\ a - 1 < b - 1
      BY <1>1, <1>3, <2>3
    <3> QED BY <1>2, <2>1, <3>1
  <2> QED BY <2>2, <2>3
<1> QED BY <1>1, <1>4, <1>5, <1>6, SortedIs

LEMMA SortedExists ==
  ASSUME TypeOK, NEW S, S \subseteq JobIds, IsFiniteSet(S)
  PROVE  Sorted(S) # {}
<1> DEFINE Bad == {U \in SUBSET S : Sorted(U) = {}}
<1>1. \A U \in SUBSET S : IsFiniteSet(U) /\ Cardinality(U) \in Nat
  BY FS_Subset, FS_CardinalityType
<1>2. SUFFICES ASSUME Bad # {} PROVE FALSE
  OBVIOUS
<1>3. PICK m \in {Cardinality(U) : U \in Bad} :
        \A n \in {Cardinality(U) : U \in Bad} : m <= n
  <2>1. {Cardinality(U) : U \in Bad} \subseteq Nat /\ {Cardinality(U) : U \in Bad} # {}
    BY <1>1, <1>2
  <2> QED BY <2>1, LeastNumber
<1>4. PICK U \in Bad : m = Cardinality(U)
  BY <1>3
<1>5. U # {}
  <2>1. ASSUME U = {} PROVE FALSE
    <3>1. Cardinality(U) = 0 /\ IsFiniteSet(U)
      BY <2>1, FS_EmptySet
    <3>2. <<>> \in [1 .. 0 -> U] /\ 1 .. 0 = {}
      BY <2>1
    <3>3. <<>> \in Sorted(U)
      BY <3>1, <3>2, SortedIs
    <3> QED BY <1>4, <3>3
  <2> QED BY <2>1
<1>6. PICK i \in U : \A j \in U \ {i} : Before(i, j)
  BY <1>4, <1>5, FirstRow
<1>7. U \ {i} \notin Bad
  <2>1. Cardinality(U \ {i}) = m - 1 /\ m \in Nat
    BY <1>1, <1>4, <1>6, FS_RemoveElement
  <2>2. ~(m <= m - 1)
    BY <2>1
  <2> QED BY <1>3, <2>1, <2>2
<1>8. Sorted(U \ {i}) # {}
  BY <1>4, <1>7
<1> QED BY <1>1, <1>4, <1>6, <1>8, SortedStep

\* Just the due rows of a queue are listed.
LEMMA Listing ==
  ASSUME TypeOK, IsFiniteSet(JobIds), NEW q
  PROVE  LET due == {i \in JobIds : IsDue(i) /\ job[i].queue = q}
             listed == ListJobs(q)
         IN /\ \A n \in DOMAIN listed : listed[n] \in due
            /\ \A i \in due : \E n \in DOMAIN listed : listed[n] = i
            /\ \A m, n \in DOMAIN listed : m < n => Before(listed[m], listed[n])
            /\ \A n \in DOMAIN listed : \A m \in 1 .. n - 1 : m \in DOMAIN listed /\ m < n
<1> DEFINE due == {i \in JobIds : IsDue(i) /\ job[i].queue = q}
<1> DEFINE k == Cardinality(due)
<1> DEFINE s == ListJobs(q)
<1>1. due \subseteq JobIds /\ IsFiniteSet(due) /\ k \in Nat
  BY FS_Subset, FS_CardinalityType
<1>2. s = CHOOSE t \in SetToSeqs(due) :
            \A m, n \in DOMAIN t : m < n => Before(t[m], t[n])
  BY DEF ListJobs
<1> HIDE DEF due, s
<1>3. s \in Sorted(due)
  <2>1. Sorted(due) # {}
    BY <1>1, SortedExists
  <2> QED BY <1>2, <2>1 DEF Sorted
<1>4. /\ s \in [1 .. k -> due]
      /\ \A m, n \in 1 .. k : m # n => s[m] # s[n]
      /\ \A m, n \in 1 .. k : m < n => Before(s[m], s[n])
  BY <1>1, <1>3, SortedIs
<1>5. \A i \in due : \E n \in 1 .. k : s[n] = i
  <2>1. IsFiniteSet(1 .. k) /\ Cardinality(1 .. k) = k
    <3>1. Cardinality(1 .. k) = IF 1 > k THEN 0 ELSE k - 1 + 1
      BY <1>1, FS_Interval
    <3> QED BY <1>1, <3>1, FS_Interval
  <2>2. s \in Injection(1 .. k, due)
    BY <1>4 DEF Injection, IsInjective
  <2>3. s \in Surjection(1 .. k, due)
    BY <1>1, <2>1, <2>2, FS_Injection
  <2> QED BY <2>3 DEF Surjection
<1> HIDE DEF k
<1> QED BY <1>1, <1>4, <1>5 DEF due, s

\* The place of a queue is the first one in the worker's list.
LEMMA RankIs ==
  ASSUME TypeOK, NEW w \in Workers, NEW i \in JobIds, Served(w, i)
  PROVE  /\ Rank(w, i) \in DOMAIN Serves[w] /\ Rank(w, i) \in Nat
         /\ Serves[w][Rank(w, i)] = job[i].queue
         /\ \A l \in DOMAIN Serves[w] :
              Serves[w][l] = job[i].queue => Rank(w, i) <= l
<1> DEFINE P == {n \in DOMAIN Serves[w] : Serves[w][n] = job[i].queue}
<1>1. DOMAIN Serves[w] \subseteq Nat /\ P # {}
  BY BoundsAssumption DEF Served
<1>2. \E m \in P : \A n \in P : m <= n
  BY <1>1, LeastNumber
<1>3. PICK m \in DOMAIN Serves[w] :
        /\ Serves[w][m] = job[i].queue
        /\ \A n \in DOMAIN Serves[w] : Serves[w][n] = job[i].queue => m <= n
  BY <1>2
<1>4. /\ Rank(w, i) \in DOMAIN Serves[w]
      /\ Serves[w][Rank(w, i)] = job[i].queue
      /\ \A l \in DOMAIN Serves[w] :
           Serves[w][l] = job[i].queue => Rank(w, i) <= l
  BY <1>3 DEF Rank
<1> QED BY <1>1, <1>4

\* No row comes before one that it follows.
LEMMA BeforeIsOneWay ==
  ASSUME TypeOK, NEW i \in JobIds, NEW j \in JobIds, Before(i, j)
  PROVE  ~Before(j, i)
<1>1. /\ i \in Nat /\ j \in Nat
      /\ job[i].sched \in Nat /\ job[i].created \in Nat
      /\ job[j].sched \in Nat /\ job[j].created \in Nat
  BY BoundsAssumption DEF TypeOK, Row
<1> QED BY <1>1 DEF Before

\* Only Claim takes an idle worker to a job.
LEMMA OnlyClaim ==
  ASSUME TypeOK, [Next]_vars, NEW w \in Workers,
         pc[w] = "idle", pc'[w] = "claiming"
  PROVE  Claim(w)
<1>1. pc' # pc /\ pc \in [Workers -> WorkerPc]
  BY DEF TypeOK
<1>2. Next /\ ~CallerNext /\ ~Tick
  BY <1>1 DEF vars, CallerNext, Enqueue, EnqueueFetch, Cancel, Clear, Tick
<1>3. PICK v \in Workers :
        \/ Start(v) \/ WorkerStep(v) \/ Stop(v) \/ WorkerDies(v)
        \/ Return(v) \/ Raise(v) \/ HorseStep(v) \/ HorseDies(v)
  BY <1>2 DEF Next
<1>4. ~Return(v) /\ ~Raise(v) /\ ~HorseStep(v) /\ ~HorseDies(v)
  BY <1>1 DEF Return, Raise, HorseStep, Finish, HorseFail, HorseExit, HorseDies
<1>5. ASSUME NEW from, NEW to, GoTo(v, from, to), to # "claiming" PROVE FALSE
  BY <1>1, <1>5 DEF GoTo
<1>6. ~Start(v) /\ ~Stop(v)
  BY <1>5 DEF Start, Stop
<1>7. ~WorkerDies(v)
  BY <1>1 DEF WorkerDies
<1>8. /\ ~CommitClaim(v) /\ ~Fork(v) /\ ~Kill(v) /\ ~ParentFail(v)
      /\ ~PollEmpty(v) /\ ~Sleep(v) /\ ~FailStale(v)
  BY <1>5 DEF CommitClaim, Fork, Kill, ParentFail, PollEmpty, Sleep, FailStale
<1>9. ~Reap(v)
  BY <1>5 DEF Reap
<1>10. Claim(v)
  BY <1>3, <1>4, <1>6, <1>7, <1>8, <1>9 DEF WorkerStep
<1>11. v = w
  BY <1>1, <1>10 DEF Claim, GoTo
<1> QED BY <1>10, <1>11

LEMMA ClaimFollows ==
  ASSUME TypeOK, IsFiniteSet(JobIds), NEW w \in Workers, Claim(w)
  PROVE  ClaimsAsListed(w)
<1>1. PICK i \in Candidates(w) :
        /\ \A j \in Candidates(w) \ {i} : Preferred(w, i, j)
        /\ run'[w].id = i
  BY DEF Claim, TypeOK
<1>2. i \in JobIds /\ IsDue(i) /\ Served(w, i)
  BY DEF Candidates
<1> DEFINE q == job[i].queue
<1> DEFINE listed == ListJobs(q)
<1>3. PICK n \in DOMAIN listed : listed[n] = i
  BY <1>2, Listing
<1>4. \A j \in JobIds : IsDue(j) /\ Served(w, j) /\ ~Locked(j) /\ j # i
                        => Preferred(w, i, j)
  BY <1>1 DEF Candidates
<1>5. ASSUME NEW m \in 1 .. n - 1 PROVE Locked(listed[m])
  <2> DEFINE j == listed[m]
  <2>1. m \in DOMAIN listed /\ m < n
    BY Listing
  <2>2. j \in JobIds /\ IsDue(j) /\ job[j].queue = q
    BY <2>1, Listing
  <2>3. Before(j, i)
    BY <1>3, <2>1, Listing
  <2>4. ~Before(i, j)
    BY <1>2, <2>2, <2>3, BeforeIsOneWay
  <2>5. j # i
    BY <2>3, <2>4
  <2>6. Served(w, j) /\ Rank(w, j) = Rank(w, i) /\ Rank(w, i) \in Nat
    <3> HIDE DEF j
    <3>1. job[j].queue = job[i].queue
      BY <2>2
    <3>2. Served(w, j) /\ Rank(w, j) = Rank(w, i)
      BY <1>2, <3>1 DEF Served, Rank
    <3> QED BY <1>2, <3>2, RankIs
  <2>7. ~Preferred(w, i, j)
    BY <2>4, <2>6 DEF Preferred
  <2> QED BY <1>4, <2>2, <2>5, <2>6, <2>7
<1> DEFINE k == Rank(w, i)
<1>6. /\ k \in DOMAIN Serves[w] /\ k \in Nat /\ Serves[w][k] = q
      /\ \A l \in DOMAIN Serves[w] : Serves[w][l] = q => k <= l
  BY <1>2, RankIs
<1>7. ASSUME NEW l \in 1 .. k - 1, NEW m \in DOMAIN ListJobs(Serves[w][l])
      PROVE  Locked(ListJobs(Serves[w][l])[m])
  <2> DEFINE j == ListJobs(Serves[w][l])[m]
  <2>1. l \in DOMAIN Serves[w] /\ l < k /\ l \in Nat
    <3>1. Serves[w] \in Seq(Queues)
      BY BoundsAssumption
    <3> HIDE DEF k
    <3>2. DOMAIN Serves[w] = 1 .. Len(Serves[w]) /\ Len(Serves[w]) \in Nat
      BY <3>1
    <3> QED BY <1>6, <3>2
  <2>2. j \in JobIds /\ IsDue(j) /\ job[j].queue = Serves[w][l]
    BY Listing
  <2>3. Serves[w][l] # q
    BY <1>6, <2>1
  <2>4. j # i
    BY <2>2, <2>3
  <2>5. Served(w, j)
    BY <2>1, <2>2 DEF Served
  <2>6. Rank(w, j) <= l /\ Rank(w, j) \in Nat
    BY <2>1, <2>2, <2>5, RankIs
  <2>7. ~Preferred(w, i, j)
    <3> HIDE DEF j
    <3>1. Rank(w, j) < Rank(w, i)
      BY <1>6, <2>1, <2>6
    <3> QED BY <1>6, <2>6, <3>1 DEF Preferred
  <2> QED BY <1>4, <2>2, <2>4, <2>5, <2>7
<1> HIDE DEF k
<1>8. \E x \in DOMAIN Serves[w] :
        /\ Serves[w][x] = q
        /\ \A l \in 1 .. x - 1 :
             \A m \in DOMAIN ListJobs(Serves[w][l]) :
               Locked(ListJobs(Serves[w][l])[m])
  BY <1>6, <1>7
<1> QED BY <1>1, <1>3, <1>5, <1>8 DEF ClaimsAsListed

\* A worker claims a job only when every job listed before it in its queue is
\* being claimed, and no queue further left in its list offers another one.
THEOREM ClaimsDoFollow == IsFiniteSet(JobIds) => (Spec => ClaimsFollowListing)
<1> SUFFICES ASSUME IsFiniteSet(JobIds) PROVE Spec => ClaimsFollowListing
  OBVIOUS
<1>1. TypeOK /\ [Next]_vars
        => [\A w \in Workers :
              pc[w] = "idle" /\ pc'[w] = "claiming" => ClaimsAsListed(w)]_vars
  BY OnlyClaim, ClaimFollows
<1> QED BY <1>1, TypeCorrect, PTL DEF Spec, ClaimsFollowListing
=============================================================================
