SPECIFICATION PromptSpec
CONSTANTS
  JobIds = {1, 2}
  CallerIds = {}
  Queues = {"default"}
  Workers = {w1, w2}
  Serves <- ServesOne
  Mortal = {w1}
  MayStop = {}
  Timeouts = {1}
  Delays = {1}
  Grace = 0
  StaleSlack = 0
  StaleInterval = 1
  MaxPickup = 0
  MaxEnqueues = 2
  Horizon = 0
  MaxTime = 5
PROPERTIES
  JobsGetDone
CHECK_DEADLOCK FALSE
