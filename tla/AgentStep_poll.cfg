SPECIFICATION FairSpec
CONSTANTS
  Visits = 2
  MaxLoops = 2
  Judge = TRUE
  Mapped = TRUE
  Pools <- BothPools
  MaxFault = 2
  MaxCrash = 1
  MaxRetry = 1
INVARIANTS TypeOK FinalNotOverlooked ResultIsOwnWork EndedRunHoldsNoPod
PROPERTIES WorkNotDoubled StepEnds
CHECK_DEADLOCK FALSE
