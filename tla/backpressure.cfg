SPECIFICATION FairSpec
CONSTANTS
  None = None
  Keys = {a, b}
  JobCap = 2
  SnoozeCap = 2
  PublishCap = 2
  BATCH_SIZE = 2
  PublishMayFail = TRUE
INVARIANTS
  TypeOK
  NoCircularWait
  OneJobPerKey
PROPERTIES
  JobReturns
