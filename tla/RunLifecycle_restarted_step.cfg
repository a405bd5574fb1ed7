SPECIFICATION Spec
CONSTANTS
  t1 = t1
  t2 = t2
  Task <- OneTask
  N = 4
  Gates <- FirstAndSecond
  Asks <- None
  Guarded <- Fourth
  Notify = FALSE
  Registry = TRUE
  Ops <- RestartOps
  Booted = TRUE
  MaxCrash = 0
PROPERTY WorkFollowsDecision
CHECK_DEADLOCK FALSE
