SPECIFICATION FairSpec
CONSTANTS
  N = 2
  MaxLog = 3
  MaxLater = 1
  RetryLimit = 1
  MaxFaults = 2
  CrashCost = 2
  MaxActs = 2
  Acts = {"start", "send", "retry", "cancel", "leave", "foreground", "open", "signout"}
CHECK_DEADLOCK FALSE
INVARIANTS
  TypeOK
  SeenInOrder
  NothingSkipped
  LiveTaskIsFollowed
  CompletedIsStored
PROPERTIES FollowedEnds
