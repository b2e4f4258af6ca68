SPECIFICATION Spec
CONSTANTS
  None = None
  Tombstone = Tombstone
  Malformed = Malformed
  trim_start <- MCtrim_start
  trim_end <- MCtrim_end
  to_uppercase <- MCto_uppercase
  DeviceTexts <- MCDeviceTexts
  RedisEntries <- MCRedisEntries
  ForeignRecords <- MCForeignRecords
  Reports <- MCReports
  MaxLog = 3
INVARIANTS
  TypeOK
  LastReadableDecides
  OwnBypassReturns
PROPERTIES
  ConflictNeedsEpicsReport
  NoSourceHidden
