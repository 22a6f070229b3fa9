SPECIFICATION FairSpec
CONSTANTS
  s1 = s1
  Tasks = {t1}
  Sessions = {s1}
  NoTask = NoTask
  SessionOf <- OneSession
  Attempts = 1
  MaxStream = 0
  Limit = 1
  Cancellable = {}
  FaultKinds = {"crash", "queue", "execute"}
  MaxFaults = 3
  CrashCost = 2
CHECK_DEADLOCK FALSE
PROPERTY QueuedIsResolved
