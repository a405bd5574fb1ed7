SPECIFICATION Spec
CONSTANTS
  t1 = t1
  t2 = t2
  Task <- TwoTasks
  N = 2
  Gates <- None
  Asks <- None
  Guarded <- None
  Notify = FALSE
  Registry = FALSE
  Ops <- EndingOps
  Booted = TRUE
  MaxCrash = 0
INVARIANT EndingSticks
CHECK_DEADLOCK FALSE
