SPECIFICATION FairSpec
CHECK_DEADLOCK FALSE
CONSTANTS
  None = None
  epics = epics
  analog = analog
  Keys = {analog}
  EpicsKeys = {}
  JobCap = 1
  MaxTime = 2
  MAX_DELAY = 1
  MAX_DELIVERY_ATTEMPTS = 1
  PublishMayFail = TRUE
  MaxInput = 3
  MaxRestarts = 0
  WorkflowMayStop = FALSE
  RedisInputs = {"HIGH"}
  AcnetStatuses <- MCAcnet
INVARIANTS
  NoIntentLost
  TimerMatchesConfirmed
PROPERTIES
  SettlesUnlessOverdue
  SnoozeEnds
