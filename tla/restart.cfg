SPECIFICATION Spec
CHECK_DEADLOCK FALSE
CONSTANTS
  None = None
  epics = epics
  analog = analog
  Keys = {epics}
  EpicsKeys = {epics}
  JobCap = 1
  MaxTime = 2
  MAX_DELAY = 2
  MAX_DELIVERY_ATTEMPTS = 2
  PublishMayFail = TRUE
  MaxInput = 3
  MaxRestarts = 2
  WorkflowMayStop = TRUE
  RedisInputs = {"NO_ALARM", "HIGH"}
  AcnetStatuses <- MCAcnet
INVARIANTS
  EffectHasJob
  SnapshotMatchesKafka
PROPERTIES
  BypassSurvivesRestart
  ImplementsRegister
