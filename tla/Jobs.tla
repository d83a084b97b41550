---------------------------- MODULE Jobs ------------------------------------
(***************************************************************************)
(* The queue of background jobs, as one of several components beside which *)
(* it runs.                                                                *)
(***************************************************************************)
EXTENDS Naturals, FiniteSets

CONSTANTS
  JqJobIds, JqCallerIds, JqQueues, JqWorkers, JqServes, JqMortal, JqMayStop,
  JqTimeouts, JqDelays, JqGrace, JqStaleSlack, JqStaleInterval, JqMaxPickup,
  JqMaxEnqueues, JqHorizon, JqMaxTime
VARIABLES
  jqJob, jqNow, jqTickets, jqUsed, jqClaimed, jqAsking, jqPc, jqRun,
  jqHorse, jqLastCheck
jq == <<
  jqJob, jqNow, jqTickets, jqUsed, jqClaimed, jqAsking, jqPc, jqRun,
  jqHorse, jqLastCheck>>
JQ == INSTANCE JobQueue_proof WITH
  JobIds <- JqJobIds, CallerIds <- JqCallerIds, Queues <- JqQueues,
  Workers <- JqWorkers, Serves <- JqServes, Mortal <- JqMortal,
  MayStop <- JqMayStop, Timeouts <- JqTimeouts, Delays <- JqDelays,
  Grace <- JqGrace, StaleSlack <- JqStaleSlack,
  StaleInterval <- JqStaleInterval, MaxPickup <- JqMaxPickup,
  MaxEnqueues <- JqMaxEnqueues, Horizon <- JqHorizon, MaxTime <- JqMaxTime,
  job <- jqJob, now <- jqNow, tickets <- jqTickets, used <- jqUsed,
  claimed <- jqClaimed, asking <- jqAsking, pc <- jqPc, run <- jqRun,
  horse <- jqHorse, lastCheck <- jqLastCheck

-----------------------------------------------------------------------------
(* Properties *)

(* JobQueue: list_jobs promises "execution order": a worker claims a job   *)
(* only when every job listed before it in its queue is just being claimed *)
(* by another worker, and no queue further left offers an unlocked due     *)
(* job.                                                                    *)
ClaimsFollowListing == JQ!ClaimsFollowListing
=============================================================================
