SPECIFICATION Spec
CONSTANTS
  Readers = {r1, r2}
  MaxEventsPerTask = 2
  Retention = 2
  MaxPublished = 5
  MaxRestarts = 1
CHECK_DEADLOCK FALSE
INVARIANTS
  TypeOK
  NeverRepeats
  GapOnlyIfForgotten
  EndIsRetained
  OpenIsSubscribed
PROPERTIES
  ImplementsFeed
