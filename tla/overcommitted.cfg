SPECIFICATION FairSpec
CHECK_DEADLOCK FALSE
CONSTANTS
  None = None
  Keys = {a, b}
  JobCap = 1
  SnoozeCap = 2
  PublishCap = 2
  BATCH_SIZE = 2
  PublishMayFail = TRUE
PROPERTIES
  OutcomesReconciled
