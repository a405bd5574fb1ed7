SPECIFICATION Spec
CONSTANTS
  t1 = t1
  t2 = t2
  Task <- OneTask
  N = 3
  Gates <- FirstAndSecond
  Asks <- None
  Guarded <- Third
  Notify = FALSE
  Registry = TRUE
  Ops <- UiOps
  Booted = TRUE
  MaxCrash = 1
PROPERTY WorkFollowsDecision
CHECK_DEADLOCK FALSE
