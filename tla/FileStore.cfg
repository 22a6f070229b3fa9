SPECIFICATION FairSpec
CONSTANTS
  MaxFiles = 2
  MaxTasks = 2
  MaxArtifacts = 1
  StorageLimit = 2
  ConcurrentLimit = 1
  MaxEvents = 4
INVARIANTS
  TypeOK
  WithinQuota
  RowHasObject
  ObjectHasRow
  AttachedIsKept
  PendingIsUsable
PROPERTIES
  AbandonedIsRemoved
CHECK_DEADLOCK FALSE
