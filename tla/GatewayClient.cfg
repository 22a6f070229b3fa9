SPECIFICATION FairSpec
CONSTANTS
  t1 = t1
  t2 = t2
  t3 = t3
  s1 = s1
  s2 = s2
  None = None
  Tasks = {t1, t2, t3}
  Sessions = {s1, s2}
  SessionOf <- TwoSessions
  e1 = e1
  e2 = e2
  TasksOf <- AnySecond
  Cancellable = {t2, t3}
  Execs = {e1, e2}
  Sockets = {k1, k2}
  MaxFaults = 1
  MaxEvents = 2
CHECK_DEADLOCK FALSE
INVARIANTS
  TypeOK
  ActiveHasTimer
  ActiveIsConnected
  
  EndIsLast
PROPERTIES
  
  AcceptedIsEnded
