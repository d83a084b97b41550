SPECIFICATION Spec
CONSTANTS
  None = None
  r1 = r1
  r2 = r2
  Unset = Unset
  JqJobIds = {1, 2}
  JqCallerIds = {1}
  JqQueues = {"high", "low"}
  JqWorkers = {r1, r2}
  JqServes <- Serves
  JqMortal = {}
  JqMayStop = {}
  JqTimeouts = {0}
  JqDelays = {0, 1}
  JqGrace = 1
  JqStaleSlack = 2
  JqStaleInterval = 2
  JqMaxPickup = 0
  JqMaxEnqueues = 2
  JqHorizon = 0
  JqMaxTime = 1
  HiGroups = {1, 2, 3}
  HiRequests = {r1, r2}
  HiMaxRecurses = 0
  PlNames = {"a", "b", "c", "d"}
  PlConfigured <- Configured
  PlChained = {"a", "b"}
  PlMaxService = 2
  PlThreads = {r1}
  TrRequests = {r1, r2}
  TrVisitors = {1, 2}
  TrWindow = 1
  TrMaxDay = 3
  TrMaxViews = 2
  TrMaxRuns = 2
  ChPairs <- Pairs
  PsRequests = {r1, r2}
  PsEarly = {r1}
  PsIds = {1, 2, 3}
  PsContents = {"a", "b"}
  PsMaxSent = 2
INVARIANTS
  TypeOK
  ActionsFollowPlugins
  SummaryFollowsViews
  ChangesAreTold
  RevisesAsAsked
  ValidatesInPlace
  FindsWhatIsAsked
PROPERTIES
  ClaimsFollowListing
  UpdateClosesNoLoop
  SavesWhatWasSent
CHECK_DEADLOCK FALSE
