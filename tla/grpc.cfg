SPECIFICATION FairSpec
CHECK_DEADLOCK FALSE
CONSTANTS
  None = None
  epics = epics
  analog = analog
  Keys <- MCKeys
  EpicsKeys = {epics}
  JobCap = 2
  MaxTime = 0
  c1 = c1
  c2 = c2
  Callers <- MCCallers
  Viewers = {c1}
  Requests <- MCRequests
  UserCap = 2
  Hydrated <- MCHydrated
INVARIANTS
  TypeOK
  OkMeansEveryDevice
  SnapshotShowsOk
PROPERTIES
  CallEnds
  EndAnswersEveryone
  PrefixTaken
