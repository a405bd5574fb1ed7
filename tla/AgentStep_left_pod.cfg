SPECIFICATION FairSpec
CONSTANTS
  Visits = 2
  MaxLoops = 2
  Judge = TRUE
  Mapped = TRUE
  Pools <- BothPools
  MaxFault = 0
  MaxCrash = 0
  MaxRetry = 0
INVARIANT FailedRunHoldsNoPod
CHECK_DEADLOCK FALSE
