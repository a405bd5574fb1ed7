SPECIFICATION FairSpec
CONSTANTS
  Visits = 2
  MaxLoops = 2
  Judge = TRUE
  Mapped = TRUE
  Pools <- BothPools
  MaxFault = 0
  MaxCrash = 1
  MaxRetry = 0
PROPERTY WorkNeverDoubled
CHECK_DEADLOCK FALSE
