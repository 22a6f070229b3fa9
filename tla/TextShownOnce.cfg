SPECIFICATION Spec
CONSTANTS
  N = 2
  MaxLog = 4
  MaxLater = 1
  RetryLimit = 1
  MaxFaults = 0
  CrashCost = 2
  MaxActs = 2
  Acts = {"start", "send", "retry", "cancel", "leave", "foreground", "open", "signout"}
CHECK_DEADLOCK FALSE
INVARIANT TextShownOnce
