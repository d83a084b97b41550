SPECIFICATION Spec
CONSTANTS
  JobIds = {1}
  CallerIds = {1}
  Queues = {"default"}
  Workers = {w1, w2}
  Serves <- ServesOne
  Mortal = {w1}
  MayStop = {}
  Timeouts = {0, 1}
  Delays = {0}
  Grace = 1
  StaleSlack = 2
  StaleInterval = 1
  MaxPickup = 1
  MaxEnqueues = 2
  Horizon = 1
  MaxTime = 6
PROPERTIES
  OutcomeIsOwn
CHECK_DEADLOCK FALSE
