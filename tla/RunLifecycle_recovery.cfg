SPECIFICATION FairSpec
CONSTANTS
  t1 = t1
  t2 = t2
  Task <- TwoTasks
  N = 4
  Gates <- None
  Asks <- SecondAndFourth
  Guarded <- None
  Notify = FALSE
  Registry = FALSE
  Ops <- UiOps
  Booted = TRUE
  MaxCrash = 2
INVARIANTS RunningHasWorker WaitingMatchesCheckpoint
PROPERTIES ImplementsContract RunSettles
CHECK_DEADLOCK FALSE
