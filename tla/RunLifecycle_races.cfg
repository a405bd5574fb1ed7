SPECIFICATION Spec
CONSTANTS
  t1 = t1
  t2 = t2
  Task <- TwoTasks
  N = 2
  Gates <- First
  Asks <- None
  Guarded <- Second
  Notify = FALSE
  Registry = TRUE
  Ops <- RacingOps
  Booted = FALSE
  MaxCrash = 1
SYMMETRY Symmetry
INVARIANTS TypeOK NoGuardedWorkWithoutApproval ApprovalInv
CHECK_DEADLOCK FALSE
