SPECIFICATION Spec
CONSTANTS
  t1 = t1
  t2 = t2
  Task <- TwoTasks
  N = 2
  Gates <- FirstAndSecond
  Asks <- None
  Guarded <- None
  Notify = FALSE
  Registry = TRUE
  Ops <- DecisionsOnly
  Booted = TRUE
  MaxCrash = 0
INVARIANT OneStream
CHECK_DEADLOCK FALSE
