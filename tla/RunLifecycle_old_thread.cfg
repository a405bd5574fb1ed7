SPECIFICATION Spec
CONSTANTS
  t1 = t1
  t2 = t2
  Task <- OneTask
  N = 2
  Gates <- Second
  Asks <- First
  Guarded <- None
  Notify = TRUE
  Registry = TRUE
  Ops <- ReplyOps
  Booted = TRUE
  MaxCrash = 0
INVARIANT GatesAreDecided
CHECK_DEADLOCK FALSE
