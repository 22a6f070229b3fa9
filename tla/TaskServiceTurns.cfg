SPECIFICATION Spec
CONSTANTS
  s1 = s1
  Tasks = {t1, t2}
  Sessions = {s1}
  NoTask = NoTask
  SessionOf <- OneSession
  Attempts = 2
  MaxStream = 1
  Limit = 1
  Cancellable = {t1}
  FaultKinds = {"crash", "queue", "execute", "adapter", "stream", "save", "store", "session", "timer"}
  MaxFaults = 0
  CrashCost = 1
CHECK_DEADLOCK FALSE
INVARIANTS
  UnendedWithinLimit
