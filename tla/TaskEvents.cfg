SPECIFICATION EventsFairSpec
CONSTANTS
  s1 = s1
  NoTask = NoTask
  Tasks = {t1, t2}
  Sessions = {s1}
  SessionOf <- OneSession
  Callers = {"relay"}
  MaxSrc = 1
  MaxLog = 2
CHECK_DEADLOCK FALSE
INVARIANTS
  VersionsContiguous
  LockIsOwned
PROPERTIES
  LockIsGranted
  ImplementsHistory
