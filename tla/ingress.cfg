SPECIFICATION FairSpec
CHECK_DEADLOCK FALSE
CONSTANTS
  None = None
  Keys = {a, b, c}
  QueueCap = 2
  MaxUpdates = 6
INVARIANTS
  TypeOK
  InOrder
  LatestSurvives
  DrainWillRun
PROPERTIES
  OldestFirst
  OverloadEnds
  LatestArrives
