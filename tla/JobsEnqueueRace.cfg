SPECIFICATION Spec
CONSTANTS
  JobIds = {1}
  CallerIds = {}
  Queues = {"default"}
  Workers = {w1, w2}
  Serves <- ServesOne
  Mortal = {w1}
  MayStop = {}
  Timeouts = {0, 1}
  Delays = {0}
  Grace = 1
  StaleSlack = 2
  StaleInterval = 1
  MaxPickup = 1
  MaxEnqueues = 1
  Horizon = 0
  MaxTime = 6
PROPERTIES
  EnqueueFindsItsJob
CHECK_DEADLOCK FALSE
