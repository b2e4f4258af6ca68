SPECIFICATION Spec
CHECK_DEADLOCK FALSE
CONSTANTS
  None = None
  epics = epics
  analog = analog
  Keys <- MCKeys
  EpicsKeys = {epics}
  JobCap = 1
  MaxTime = 1
  MAX_DELAY = 2
  MAX_DELIVERY_ATTEMPTS = 2
  PublishMayFail = TRUE
  MaxInput = 2
  MaxRestarts = 0
  WorkflowMayStop = FALSE
  RedisInputs = {"NO_ALARM", "HIGH"}
  AcnetStatuses <- MCAcnet
INVARIANTS
  TypeOK
  OneJobPerKey
  IntentHasJob
  EffectHasJob
  OkMeansConfirmed
  NoIntentLost
  SnapshotMatchesKafka
  TimerMatchesConfirmed
PROPERTIES
  AnsweredOnce
  ImplementsRegister
