SPECIFICATION Spec
CONSTANTS
  JobIds = {1, 2}
  CallerIds = {}
  Queues = {"default"}
  Workers = {w1, w2}
  Serves <- ServesOne
  Mortal = {w1}
  MayStop = {w1}
  Timeouts = {1}
  Delays = {0}
  Grace = 0
  StaleSlack = 1
  StaleInterval = 1
  MaxPickup = 1
  MaxEnqueues = 2
  Horizon = 0
  MaxTime = 3
INVARIANTS
  TypeOK
  RunAtMostOnce
  StaleMeansWorkerGone
PROPERTIES
  OutcomeIsKept
  KeepsPromise
CHECK_DEADLOCK FALSE
