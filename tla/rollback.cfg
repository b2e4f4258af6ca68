SPECIFICATION FairSpec
CHECK_DEADLOCK FALSE
CONSTANTS
  None = None
  epics = epics
  analog = analog
  Keys = {epics}
  EpicsKeys = {epics}
  JobCap = 1
  MaxTime = 2
  MAX_DELAY = 2
  MAX_DELIVERY_ATTEMPTS = 1
  PublishMayFail = TRUE
  MaxInput = 2
  MaxRestarts = 0
  WorkflowMayStop = FALSE
  RedisInputs = {"NO_ALARM", "HIGH"}
  AcnetStatuses <- MCAcnet
PROPERTIES
  IntentSettles
